---------------------------- MODULE Spec2Model ----------------------------
(***************************************************************************)
(* Model of the 2D geometry batching core of BFEngine's CGraphics          *)
(* (src/bfe-graphics/core/graphics.cpp): the render-mode stack with        *)
(* beginRenderBatch / endRenderBatch / restartRenderBatch, the fixed       *)
(* capacity write buffers with their cursors, the overflow-triggered       *)
(* internal flush, and the line bookkeeping of beginLine / addVertex /     *)
(* endLine.                                                                *)
(*                                                                         *)
(* The CGraphics singleton is the record g; its fields carry the names of  *)
(* the members of the class.  Three more fields observe what the class     *)
(* does to its collaborators: dev (the calls made on the graphics device   *)
(* during the last operation), warn (warnings logged by the last           *)
(* operation) and fault (set when the code runs into undefined behaviour:  *)
(* a write past the end of a buffer, a call through the null render mode). *)
(* A faulted state has no successor: nothing is said about what the        *)
(* program does afterwards.                                                *)
(*                                                                         *)
(* Abstractions: colours and texture coordinates are modelled by their     *)
(* cursors only (no property reads their values); an index buffer is       *)
(* modelled by the part written since the last cursor reset (the program   *)
(* never reads an index buffer); a vertex position is a pair of naturals.  *)
(***************************************************************************)
EXTENDS Integers, Sequences, FiniteSets, TLC

(***************************************************************************)
(* Sizes.  The header that sets GRAPHICS_SIZE_OF_INDEX_BUFFER is not part  *)
(* of the sources; the model scales it down.                               *)
(***************************************************************************)
GRAPHICS_SIZE_OF_INDEX_BUFFER == 32

\* Size of every write buffer (graphics.cpp:72-79 resizes all of them to it).
m_unIndexMax == GRAPHICS_SIZE_OF_INDEX_BUFFER

\* The flush threshold every emitter compares m_uncI against (C++ integer division).
Threshold == GRAPHICS_SIZE_OF_INDEX_BUFFER \div 2

\* Sub-batch size of dots().
nBatchSize == GRAPHICS_SIZE_OF_INDEX_BUFFER \div 8

\* Depth of the render-mode stack explored.
MaxDepth == 3

\* Draw calls per frame explored (m_nDrawCalls is capped by the guards).
MaxDrawCalls == 2

(***************************************************************************)
(* Render modes.  CRenderMode is owned by a collaborator; the core sees a  *)
(* mode's identity and its RenderModeType only.                            *)
(***************************************************************************)
nullptr == "nullptr"

RenderModes == {"world", "world2", "font", "multi"}

\* The modes the batch protocol is explored with: two of one type, one of another.
BatchModes == {"world", "world2", "font"}

getRenderModeType(m) ==
    CASE m = "world"  -> "VERT3COL4"
      [] m = "world2" -> "VERT3COL4"
      [] m = "font"   -> "VERT3COL4TEX2"
      [] m = "multi"  -> "VERT3COL4TEX2X2"

\* The registry of render modes by name, as filled before the first frame: one
\* entry for each mode of BatchModes, under the name of the mode.
m_RenderModesByName == [name \in BatchModes |-> name]

\* The names the name-keyed calls are explored with: the registered ones and one
\* that no mode was registered under.
RenderModeNames == DOMAIN m_RenderModesByName \cup {"unknown"}

PolygonTypes == {"LINE_SINGLE", "LINE_STRIP", "LINE_LOOP", "FILLED"}

\* m_fDepth (GRAPHICS_DEPTH_DEFAULT) as stored in the third slot of a vertex.
m_fDepth == 0

(***************************************************************************)
(* The state after construction.                                           *)
(***************************************************************************)
Constructed ==
    [ m_RenderModeStack     |-> << >>,
      m_pRenderMode         |-> nullptr,
      m_RenderModeType      |-> "VERT3COL4",
      m_uncI                |-> 0,
      m_unIndex             |-> 0,
      m_unIndexVerts        |-> 0,
      m_unIndexCol          |-> 0,
      m_unIndexUV0          |-> 0,
      m_unIndexUV1          |-> 0,
      m_unIndexLines        |-> 0,
      m_unIndexPoints       |-> 0,
      m_unIndexTriangles    |-> 0,
      m_vecVertices         |-> [i \in 1..m_unIndexMax |-> 0],
      m_vecIndicesLines     |-> << >>,
      m_vecIndicesPoints    |-> << >>,
      m_vecIndicesTriangles |-> << >>,
      m_nLineNrOfVerts      |-> 0,
      m_PolyType            |-> "LINE_SINGLE",
      m_bLineBatchFirst     |-> TRUE,
      m_bLineBatchCall      |-> FALSE,
      m_aVertFirst          |-> <<0, 0>>,
      m_nDrawCalls          |-> 0,
      m_nLines              |-> 0,
      m_nPoints             |-> 0,
      m_nTriangles          |-> 0,
      m_nVerts              |-> 0,
      alloc                 |-> << >>,
      m_fCamAng             |-> 0,
      m_fCamZoom            |-> <<1, 1>>,
      m_vecCamPos           |-> <<<<0, 1>>, <<0, 1>>>>,
      m_unWidthScr          |-> 0,
      m_unHeightScr         |-> 0,
      m_ViewPort            |-> [leftplane |-> <<0, 1>>, rightplane |-> <<0, 1>>,
                                 bottomplane |-> <<0, 1>>, topplane |-> <<0, 1>>],
      dev                   |-> << >>,
      warn                  |-> 0,
      fault                 |-> "none" ]


(***************************************************************************)
(* Buffer writes.  A write at a cursor that is not below the buffer's size *)
(* is undefined behaviour: the cursor is advanced as the code advances it  *)
(* and the state is marked faulted.  A faulted state is final: every       *)
(* operator below returns it as it is.                                     *)
(***************************************************************************)
Fault(s, what) == IF s.fault = "none" THEN [s EXCEPT !.fault = what] ELSE s

\* The rest of a handler runs only while no fault has happened.
Ok(s) == s.fault = "none"

\* The state w after a write, faulted if the cursor went past the buffer.
Written(w, cursor) == IF cursor > m_unIndexMax THEN Fault(w, "oob") ELSE w

\* m_vecVertices[m_unIndexVerts++] = f, for every f of fs in turn.
PutVertices(s, fs) ==
    IF ~Ok(s) THEN s
    ELSE Written([s EXCEPT !.m_unIndexVerts = @ + Len(fs),
                           !.m_vecVertices =
                               [i \in 1..m_unIndexMax |->
                                   IF s.m_unIndexVerts < i /\ i <= s.m_unIndexVerts + Len(fs)
                                   THEN fs[i - s.m_unIndexVerts]
                                   ELSE s.m_vecVertices[i]]],
                 s.m_unIndexVerts + Len(fs))

\* One vertex: x, y and the depth value.
PutVertex(s, v) == PutVertices(s, <<v[1], v[2], m_fDepth>>)

\* m_vecColours[m_unIndexCol++] = m_aColour[0..3], for n vertices.
PutColours(s, n) ==
    IF ~Ok(s) THEN s
    ELSE Written([s EXCEPT !.m_unIndexCol = @ + 4 * n], s.m_unIndexCol + 4 * n)

\* m_vecUV0s[m_unIndexUV0++] = UV, for n texture coordinates.
PutUV0s(s, n) ==
    IF ~Ok(s) THEN s
    ELSE Written([s EXCEPT !.m_unIndexUV0 = @ + n], s.m_unIndexUV0 + n)

PutUV1s(s, n) ==
    IF ~Ok(s) THEN s
    ELSE Written([s EXCEPT !.m_unIndexUV1 = @ + n], s.m_unIndexUV1 + n)

\* m_vecIndicesLines[m_unIndexLines++] = i, for every i of is in turn.
PutLines(s, is) ==
    IF ~Ok(s) THEN s
    ELSE Written([s EXCEPT !.m_unIndexLines = @ + Len(is),
                           !.m_vecIndicesLines = @ \o is],
                 s.m_unIndexLines + Len(is))

PutPoints(s, is) ==
    IF ~Ok(s) THEN s
    ELSE Written([s EXCEPT !.m_unIndexPoints = @ + Len(is),
                           !.m_vecIndicesPoints = @ \o is],
                 s.m_unIndexPoints + Len(is))

PutTriangles(s, is) ==
    IF ~Ok(s) THEN s
    ELSE Written([s EXCEPT !.m_unIndexTriangles = @ + Len(is),
                           !.m_vecIndicesTriangles = @ \o is],
                 s.m_unIndexTriangles + Len(is))

\* m_unIndex += n; m_uncI += cost;
Advance(s, n, cost) ==
    IF Ok(s) THEN [s EXCEPT !.m_unIndex = @ + n, !.m_uncI = @ + cost] ELSE s


(***************************************************************************)
(* The device.  A flush uploads the written part of the buffers and issues *)
(* the draws; the event records what was uploaded.  An index is resolved   *)
(* to the position it addresses in the uploaded vertex data; an index at   *)
(* or past the uploaded vertex count addresses nothing (Outside).          *)
(***************************************************************************)
Outside == <<-1, -1>>

Position(s, i) ==
    IF 3 * i + 3 <= s.m_unIndexVerts /\ 3 * i + 3 <= m_unIndexMax
    THEN <<s.m_vecVertices[3 * i + 1], s.m_vecVertices[3 * i + 2]>>
    ELSE Outside

Resolve(s, is) == [k \in 1..Len(is) |-> Position(s, is[k])]

\* The switch over the render-mode type: which index streams are drawn.
StreamsDrawn(type) ==
    CASE type = "VERT3COL4"       -> <<"lines", "points", "triangles">>
      [] type = "VERT3COL4TEX2"   -> <<"triangles">>
      [] type = "VERT3COL4TEX2X2" -> <<"triangles">>

DrawEvent(s, cause) ==
    LET type == getRenderModeType(s.m_pRenderMode)
        gen  == type = "VERT3COL4"
    IN  [ op        |-> "draw",
          cause     |-> cause,
          mode      |-> s.m_pRenderMode,
          streams   |-> StreamsDrawn(type),
          nVerts    |-> s.m_unIndexVerts,
          nLines    |-> IF gen THEN s.m_unIndexLines ELSE 0,
          nPoints   |-> IF gen THEN s.m_unIndexPoints ELSE 0,
          nTris     |-> s.m_unIndexTriangles,
          count     |-> m_unIndexMax,
          lines     |-> IF gen THEN Resolve(s, s.m_vecIndicesLines) ELSE << >>,
          points    |-> IF gen THEN Resolve(s, s.m_vecIndicesPoints) ELSE << >>,
          triangles |-> Resolve(s, s.m_vecIndicesTriangles) ]

BindEvent(m) == [op |-> "bind", mode |-> m]

\* A reset that forgets the vertex cursor (a variant of ResetCursors).
ResetCursors_KeepsVerts(s) ==
    [s EXCEPT !.m_uncI = 0, !.m_unIndex = 0,
              !.m_unIndexCol = 0, !.m_unIndexUV0 = 0, !.m_unIndexUV1 = 0,
              !.m_unIndexLines = 0, !.m_unIndexPoints = 0,
              !.m_unIndexTriangles = 0,
              !.m_vecIndicesLines = << >>, !.m_vecIndicesPoints = << >>,
              !.m_vecIndicesTriangles = << >>]

\* A reset that forgets the vertex ordinal counter (a variant of ResetCursors).
ResetCursors_KeepsOrdinal(s) ==
    [s EXCEPT !.m_uncI = 0, !.m_unIndexVerts = 0,
              !.m_unIndexCol = 0, !.m_unIndexUV0 = 0, !.m_unIndexUV1 = 0,
              !.m_unIndexLines = 0, !.m_unIndexPoints = 0,
              !.m_unIndexTriangles = 0,
              !.m_vecIndicesLines = << >>, !.m_vecIndicesPoints = << >>,
              !.m_vecIndicesTriangles = << >>]

\* m_uncI = 0u; ... m_unIndexTriangles = 0u;
ResetCursors(s) ==
    [s EXCEPT !.m_uncI = 0, !.m_unIndex = 0, !.m_unIndexVerts = 0,
              !.m_unIndexCol = 0, !.m_unIndexUV0 = 0, !.m_unIndexUV1 = 0,
              !.m_unIndexLines = 0, !.m_unIndexPoints = 0,
              !.m_unIndexTriangles = 0,
              !.m_vecIndicesLines = << >>, !.m_vecIndicesPoints = << >>,
              !.m_vecIndicesTriangles = << >>]

\* One draw call counted for every flush, whatever the type.
DrawCallsOf_One(type) == 1

\* m_nDrawCalls += 3 for the generic type, ++m_nDrawCalls for the texture types.
DrawCallsOf(type) == IF type = "VERT3COL4" THEN 3 ELSE 1

\* The upload, the draws and the debug counters shared by both flushes.
Submit(s, cause) ==
    IF ~Ok(s) THEN s
    ELSE IF s.m_pRenderMode = nullptr THEN Fault(s, "nullptr")
    ELSE [s EXCEPT !.dev          = Append(@, DrawEvent(s, cause)),
                   !.m_nDrawCalls = @ + DrawCallsOf(getRenderModeType(s.m_pRenderMode)),
                   !.m_nLines     = @ + s.m_unIndexLines,
                   !.m_nPoints    = @ + s.m_unIndexPoints,
                   !.m_nTriangles = @ + s.m_unIndexTriangles,
                   !.m_nVerts     = @ + s.m_unIndexVerts]

\* The reset of the cursors that ends a flush, unless the flush faulted.
Reset(s) == IF Ok(s) THEN ResetCursors(s) ELSE s

Top(st) == st[Len(st)]

Pop(st) == SubSeq(st, 1, Len(st) - 1)

PopStack(s) == [s EXCEPT !.m_RenderModeStack = IF @ = << >> THEN @ ELSE Pop(@)]

\* glBufferData(target, size, nullptr, GL_STREAM_DRAW) on the named buffer;
\* the size is counted in elements (a float and a GLuint are both 4 bytes).
Request(buffer, size) == [buffer |-> buffer, size |-> size]

\* The buffers re-allocated after the draws of an internal flush: the array
\* buffer still bound from the draw, the vertex and colour buffers and the
\* three index buffers, the latter sized by their cursors.
Reallocate(s) ==
    IF ~Ok(s) THEN s
    ELSE [s EXCEPT !.alloc = @ \o <<Request("bound", m_unIndexMax),
                                    Request("m_unVBO", m_unIndexMax),
                                    Request("m_unVBOColours", m_unIndexMax),
                                    Request("m_unIBOLines", s.m_unIndexLines),
                                    Request("m_unIBOPoints", s.m_unIndexPoints),
                                    Request("m_unIBOTriangles", s.m_unIndexTriangles)>>]

\* An internal flush that also leaves the innermost scope (a variant of
\* restartRenderBatchInternal).
restartRenderBatchInternal_Pops(s) ==
    PopStack(Reset(Reallocate(Submit(s, "internal"))))

\* restartRenderBatchInternal(): flush, re-allocate, then reset the cursors.
restartRenderBatchInternal(s) == Reset(Reallocate(Submit(s, "internal")))

\* The body of "if (bEnd)" in endRenderBatch, without the re-begin.
EndFlush(s) == Submit(s, "end")

\* A test that takes every begin inside a scope for a change of mode (a
\* variant of ModeChange).
ModeChange_Nested(s, m) == s.m_RenderModeStack # << >>

\* m_RenderModeStack.top()->getRenderModeType() != _pRenderMode->getRenderModeType()
ModeChange(s, m) ==
    IF s.m_RenderModeStack = << >> THEN FALSE
    ELSE getRenderModeType(Top(s.m_RenderModeStack)) # getRenderModeType(m)

\* The second half of beginRenderBatch: the push, the new current mode and,
\* if (bBegin), use() and the reset of the cursors.
Bind(s, m, bBegin, push) ==
    IF ~Ok(s) THEN s
    ELSE IF bBegin
    THEN ResetCursors([s EXCEPT
             !.m_RenderModeStack = IF push THEN Append(@, m) ELSE @,
             !.m_pRenderMode     = m,
             !.m_RenderModeType  = getRenderModeType(m),
             !.dev               = Append(@, BindEvent(m))])
    ELSE [s EXCEPT
             !.m_RenderModeStack = IF push THEN Append(@, m) ELSE @,
             !.m_pRenderMode     = m,
             !.m_RenderModeType  = getRenderModeType(m)]

\* A begin that pushes only when it starts a batch (a variant of
\* beginRenderBatch).
beginRenderBatch_PushOnBegin(s, m, force) ==
    Bind(IF ~force /\ ModeChange(s, m) THEN EndFlush(s) ELSE s,
         m,
         force \/ s.m_RenderModeStack = << >> \/ ModeChange(s, m),
         ~force /\ (s.m_RenderModeStack = << >> \/ ModeChange(s, m)))

\* beginRenderBatch(_pRenderMode, _bForce)
beginRenderBatch(s, m, force) ==
    Bind(IF ~force /\ ModeChange(s, m) THEN EndFlush(s) ELSE s,
         m,
         force \/ s.m_RenderModeStack = << >> \/ ModeChange(s, m),
         ~force)

\* The warning of an end without a begin.
Warn(s) == [s EXCEPT !.warn = @ + 1]

\* After the pop: m_RenderModeStack.top()->getRenderModeType() != m_RenderModeType
TypeChange(s) ==
    IF s.m_RenderModeStack = << >> THEN FALSE
    ELSE getRenderModeType(Top(s.m_RenderModeStack)) # s.m_RenderModeType

\* An end that flushes at a change of type and leaves the enclosing batch
\* unbound (a variant of ReBegin).
ReBegin_Skipped(s) == s

\* pRenderModeTmp = top(); pop(); beginRenderBatch(pRenderModeTmp);
ReBegin(s) ==
    IF ~Ok(s) THEN s
    ELSE beginRenderBatch(PopStack(s), Top(s.m_RenderModeStack), FALSE)

\* The end of a scope once its entry is popped.
EndPopped(s) ==
    IF s.m_RenderModeStack = << >> THEN EndFlush(s)
    ELSE IF TypeChange(s) THEN ReBegin(EndFlush(s))
    ELSE s

\* An end that flushes only when the stack becomes empty, and never re-begins
\* the enclosing batch (a variant of endRenderBatch).
endRenderBatch_TrueEndOnly(s, force) ==
    IF force THEN EndFlush(s)
    ELSE IF s.m_RenderModeStack = << >> THEN Warn(s)
    ELSE IF Len(s.m_RenderModeStack) = 1 THEN EndFlush(PopStack(s))
    ELSE PopStack(s)

\* An end that treats the empty stack as the end of the last scope: it
\* flushes and does not warn (a variant of endRenderBatch).
endRenderBatch_EmptyIsEnd(s, force) ==
    IF force THEN EndFlush(s) ELSE EndPopped(PopStack(s))

\* endRenderBatch(_bForce)
endRenderBatch(s, force) ==
    IF force THEN EndFlush(s)
    ELSE IF s.m_RenderModeStack = << >> THEN Warn(s)
    ELSE EndPopped(PopStack(s))

\* this->beginRenderBatch(_pRenderMode), reached only if the end returned.
BeginIfOk(s, m) == IF Ok(s) THEN beginRenderBatch(s, m, FALSE) ELSE s

\* restartRenderBatch(_pRenderMode)
restartRenderBatch(s, m) ==
    IF s.m_RenderModeStack # << >> /\
       s.m_RenderModeType = getRenderModeType(m) /\
       s.m_unIndex # 0
    THEN BeginIfOk(endRenderBatch(s, FALSE), m)
    ELSE s

\* ci != m_RenderModesByName.end(): the value the name-keyed calls return.
Found(name) == name \in DOMAIN m_RenderModesByName

\* A name-keyed begin that falls back to the first registered mode on a miss.
beginRenderBatchByName_Fallback(s, name) ==
    beginRenderBatch(s, IF Found(name) THEN m_RenderModesByName[name] ELSE "world", FALSE)

\* beginRenderBatch(const std::string&): the mode registered under the name is
\* begun, non-forced; a miss logs a warning and does nothing else.
beginRenderBatchByName(s, name) ==
    IF Found(name) THEN beginRenderBatch(s, m_RenderModesByName[name], FALSE)
    ELSE Warn(s)

\* restartRenderBatch(const std::string&)
restartRenderBatchByName(s, name) ==
    IF Found(name) THEN restartRenderBatch(s, m_RenderModesByName[name])
    ELSE Warn(s)


(***************************************************************************)
(* Lines: beginLine, addVertex, endLine.                                   *)
(***************************************************************************)
\* beginLine(_PType)
beginLine(s, type) == [s EXCEPT !.m_nLineNrOfVerts = 0, !.m_PolyType = type]

\* The index pairs (i, i+1) of k consecutive vertices from ordinal i0 on.
Consecutive(i0, k) ==
    [j \in 1..2 * k |-> IF j % 2 = 1 THEN i0 + ((j - 1) \div 2) ELSE i0 + (j \div 2)]

\* The index pairs (i0, i0+1), (i0+2, i0+3), ... of k separate segments.
Separate(i0, k) == [j \in 1..2 * k |-> i0 + j - 1]

\* The loop of endLine for LINE_SINGLE: one segment for every two vertices.
EndSingle(s) ==
    LET k == IF s.m_nLineNrOfVerts > 1 THEN s.m_nLineNrOfVerts \div 2 ELSE 0
    IN  Advance(PutLines(s, Separate(s.m_unIndex, k)), 2 * k, 0)

\* The loop of endLine for the other types: each vertex joined to the next.
Joined(s) ==
    LET k == IF s.m_nLineNrOfVerts > 1 THEN s.m_nLineNrOfVerts - 1 ELSE 0
    IN  Advance(PutLines(s, Consecutive(s.m_unIndex, k)), k, 0)

\* The closing segment of a loop that ends for good: to the first vertex if
\* it is still in the buffer, else to a new copy of the stored one.
Closed(s) ==
    IF ~Ok(s) \/ s.m_bLineBatchCall \/ s.m_PolyType \notin {"LINE_LOOP", "FILLED"}
    THEN s
    ELSE IF s.m_bLineBatchFirst
    THEN PutLines(s, <<s.m_unIndex + 1 - s.m_nLineNrOfVerts, s.m_unIndex>>)
    ELSE Advance(PutLines(PutColours(PutVertex(s, s.m_aVertFirst), 1),
                          <<s.m_unIndex, s.m_unIndex + 1>>),
                 1, 0)

\* if (!m_bLineBatchCall) m_bLineBatchFirst = true;
LineEnded(s) ==
    IF ~Ok(s) \/ s.m_bLineBatchCall THEN s ELSE [s EXCEPT !.m_bLineBatchFirst = TRUE]

\* endLine()
endLine(s) ==
    IF ~Ok(s) THEN s
    ELSE IF s.m_PolyType = "LINE_SINGLE" THEN LineEnded(EndSingle(s))
    ELSE LineEnded(Advance(Closed(Joined(s)), 1, 0))

\* The read m_vecVertices[i] (i counted from 0) of addVertex.
ReadVertex(s, i) == IF 0 <= i /\ i < m_unIndexMax THEN s.m_vecVertices[i + 1] ELSE 0

\* The snapshot taken at every split, whether or not one was taken before.
Snapshot_EverySplit(s) ==
    LET at == s.m_unIndexVerts - 3 * s.m_nLineNrOfVerts
    IN  IF at < 0 \/ at + 1 >= m_unIndexMax THEN Fault(s, "oob")
        ELSE [s EXCEPT !.m_aVertFirst = <<ReadVertex(s, at), ReadVertex(s, at + 1)>>,
                       !.m_bLineBatchFirst = FALSE]

\* if (m_bLineBatchFirst) { m_aVertFirst = first vertex of the line; ... }
Snapshot(s) ==
    LET at == s.m_unIndexVerts - 3 * s.m_nLineNrOfVerts
    IN  IF ~s.m_bLineBatchFirst THEN s
        ELSE IF at < 0 \/ at + 1 >= m_unIndexMax THEN Fault(s, "oob")
        ELSE [s EXCEPT !.m_aVertFirst = <<ReadVertex(s, at), ReadVertex(s, at + 1)>>,
                       !.m_bLineBatchFirst = FALSE]

BatchCall(s, b) == IF Ok(s) THEN [s EXCEPT !.m_bLineBatchCall = b] ELSE s

Reopen(s) == IF Ok(s) THEN beginLine(s, s.m_PolyType) ELSE s

\* The split of a line in addVertex: snapshot, endLine, flush, beginLine.
SplitLine(s) ==
    BatchCall(Reopen(restartRenderBatchInternal(endLine(BatchCall(Snapshot(s), TRUE)))),
              FALSE)

\* A split on the cost alone, without the test for an even number of vertices.
SplitIfOver_AnyCount(s) == IF s.m_uncI > Threshold THEN SplitLine(s) ELSE s

SplitIfOver(s) ==
    IF s.m_uncI > Threshold /\ s.m_nLineNrOfVerts % 2 = 0 THEN SplitLine(s) ELSE s

CountVertices(s, n) == IF Ok(s) THEN [s EXCEPT !.m_nLineNrOfVerts = @ + n] ELSE s

\* addVertex(_vecV)
addVertex(s, v) ==
    CountVertices(PutColours(PutVertex(SplitIfOver(Advance(s, 0, 4)), v), 1), 1)

\* A check that flushes as soon as the cost reaches the threshold (a variant
\* of FlushIfOver).
FlushIfOver_AtThreshold(s) ==
    IF Ok(s) /\ s.m_uncI >= Threshold THEN restartRenderBatchInternal(s) ELSE s

\* The check every emitter ends with.
FlushIfOver(s) ==
    IF Ok(s) /\ s.m_uncI > Threshold THEN restartRenderBatchInternal(s) ELSE s

\* The floats x, y, depth of the positions vs, in buffer order.
Flat(vs) ==
    [j \in 1..3 * Len(vs) |->
        IF j % 3 = 0 THEN m_fDepth ELSE vs[((j - 1) \div 3) + 1][((j - 1) % 3) + 1]]

\* n vertices with their colours, at positions vs.
PutVerticesAndColours(s, vs) == PutColours(PutVertices(s, Flat(vs)), Len(vs))

\* The positions the model gives the k-th vertex (k = 1, 2, ...) of a primitive.
Vertex(k) == <<k, k + 1>>

VertexList(n) == [k \in 1..n |-> Vertex(k)]

\* polygon(_Vertices, _PolygonType, _vecOffset), with n vertices
polygon(s, n, type) ==
    endLine(CountVertices(
                Advance(PutVerticesAndColours(beginLine(s, type), VertexList(n)), 0, 4 * n),
                n))

\* dot(_vecV)
dot(s, v) ==
    FlushIfOver(Advance(PutPoints(PutVerticesAndColours(s, <<v>>), <<s.m_unIndex>>), 1, 4))

\* A loop of dots() that reads the points from the start of the input in
\* every batch (a variant of PutDots).
PutDots_FromStart(s, from, to) ==
    LET k == IF to > from THEN to - from ELSE 0
    IN  Advance(PutPoints(PutVerticesAndColours(s, [j \in 1..k |-> Vertex(j)]),
                          [j \in 1..k |-> s.m_unIndex + j - 1]),
                k, 0)

\* The points _Dots[from .. to-1] (counted from 0) written by one loop of dots().
PutDots(s, from, to) ==
    LET k == IF to > from THEN to - from ELSE 0
    IN  Advance(PutPoints(PutVerticesAndColours(s, [j \in 1..k |-> Vertex(from + j)]),
                          [j \in 1..k |-> s.m_unIndex + j - 1]),
                k, 0)

RECURSIVE DotBatches_Backwards(_, _, _)
\* The full batches of dots() taken from the last to the first.
DotBatches_Backwards(s, j, nBatches) ==
    IF j >= nBatches \/ ~Ok(s) THEN s
    ELSE DotBatches_Backwards(
             restartRenderBatchInternal(PutDots(s, (nBatches - 1 - j) * nBatchSize,
                                                (nBatches - j) * nBatchSize)),
             j + 1, nBatches)

RECURSIVE DotBatches(_, _, _)
DotBatches(s, j, nBatches) ==
    IF j >= nBatches \/ ~Ok(s) THEN s
    ELSE DotBatches(
             restartRenderBatchInternal(PutDots(s, j * nBatchSize, (j + 1) * nBatchSize)),
             j + 1, nBatches)

\* dots(_Dots, _vecOffset), with n dots
dots(s, n) ==
    LET over     == s.m_uncI + 4 * n > Threshold
        nBatches == IF over THEN n \div nBatchSize ELSE 0
    IN  Advance(PutDots(DotBatches(IF over THEN restartRenderBatchInternal(s) ELSE s,
                                   0, nBatches),
                        nBatches * nBatchSize, n),
                0, 4 * (n - nBatches * nBatchSize))


\* The triangle indices (c, i0, i0+1), (c, i0+1, i0+2), ... of a fan of k triangles.
Fan(c, i0, k) ==
    [j \in 1..3 * k |->
        IF j % 3 = 1 THEN c
        ELSE IF j % 3 = 2 THEN i0 + ((j - 1) \div 3)
        ELSE i0 + ((j - 1) \div 3) + 1]

\* Iterations of "while (fAng < MATH_2PI)" after fAng = fFac: _nNrOfSeg - 1,
\* or one more when the rounded sum of _nNrOfSeg increments stays below 2 pi.
Iterations(nSeg, extra) == IF nSeg > 2 /\ extra THEN nSeg ELSE nSeg - 1

\* circle with the cached sines and cosines: _nNrOfSeg + 1 vertices.
CircleCached(s, nSeg) ==
    Advance(PutLines(PutLines(PutVerticesAndColours(s, VertexList(nSeg + 1)),
                              Consecutive(s.m_unIndex, nSeg)),
                     <<s.m_unIndex + nSeg, s.m_unIndex + 1>>),
            nSeg + 1, (nSeg + 1) * 4)

\* circle with the angle stepped in floating point: it + 1 vertices.
CirclePlain(s, it) ==
    Advance(PutLines(PutVerticesAndColours(s, VertexList(it + 1)),
                     Consecutive(s.m_unIndex, it)),
            it + 1, 4 * (it + 1))

\* circle(_vecC, _fR, _nNrOfSeg, _bCache)
circle(s, nSeg, bCache, extra) ==
    FlushIfOver(IF bCache THEN CircleCached(s, nSeg)
                          ELSE CirclePlain(s, Iterations(nSeg, extra)))

FilledCircleCached(s, nSeg) ==
    Advance(PutTriangles(PutTriangles(PutVerticesAndColours(s, VertexList(nSeg + 1)),
                                      Fan(s.m_unIndex, s.m_unIndex + 1, nSeg - 1)),
                         <<s.m_unIndex, s.m_unIndex + nSeg, s.m_unIndex + 1>>),
            nSeg + 1, 8 + 4 * (nSeg - 1))

FilledCirclePlain(s, it) ==
    Advance(PutTriangles(PutVerticesAndColours(s, VertexList(it + 2)),
                         Fan(s.m_unIndex, s.m_unIndex + 1, it)),
            it + 2, 8 + 8 * it)

\* filledCircle(_vecC, _fR, _nNrOfSeg, _bCache)
filledCircle(s, nSeg, bCache, extra) ==
    FlushIfOver(IF bCache THEN FilledCircleCached(s, nSeg)
                          ELSE FilledCirclePlain(s, Iterations(nSeg, extra)))

\* The two triangles (1, 2, 3), (3, 2, 4) of a rectangle.
RectTriangles(i0) == <<i0, i0 + 1, i0 + 2, i0 + 2, i0 + 1, i0 + 3>>

\* filledRect(_vecLL, _vecUR)
filledRect(s) ==
    FlushIfOver(Advance(PutTriangles(PutVerticesAndColours(s, VertexList(4)),
                                     RectTriangles(s.m_unIndex)),
                        4, 16))

\* filledTriangle(_vecV1, _vecV2, _vecV3)
filledTriangle(s) ==
    FlushIfOver(Advance(PutTriangles(PutVerticesAndColours(s, VertexList(3)),
                                     <<s.m_unIndex, s.m_unIndex + 1, s.m_unIndex + 2>>),
                        3, 12))

\* The four sides of a rectangle.
RectLines(i0) == <<i0, i0 + 1, i0 + 1, i0 + 2, i0 + 2, i0 + 3, i0 + 3, i0>>

\* rect(_vecLL, _vecUR)
\* A rect that tests the cost after its vertices and before its indices.
rectAt_FlushBetween(s, vs) ==
    Advance(PutLines(FlushIfOver(Advance(PutVerticesAndColours(s, vs), 0, 12)),
                     RectLines(s.m_unIndex)),
            4, 0)

\* rect(_vecLL, _vecUR), with the four corners vs
rectAt(s, vs) ==
    FlushIfOver(Advance(PutLines(PutVerticesAndColours(s, vs), RectLines(s.m_unIndex)),
                        4, 12))

rect(s) == rectAt(s, VertexList(4))

\* texturedRect(_vecLL, _vecUR, _pUVs), with nUV texture coordinates
texturedRect(s, nUV) ==
    FlushIfOver(Advance(PutTriangles(PutUV0s(PutVerticesAndColours(s, VertexList(4)), nUV),
                                     RectTriangles(s.m_unIndex)),
                        4, 12))

\* texturedRect(_vecLL, _vecUR, _pUV0s, _pUV1s)
texturedRect2(s, nUV0, nUV1) ==
    FlushIfOver(Advance(PutTriangles(
                            PutUV1s(PutUV0s(PutVerticesAndColours(s, VertexList(4)), nUV0),
                                    nUV1),
                            RectTriangles(s.m_unIndex)),
                        4, 12))

\* swapBuffers(): the frame's debug counters start again.
swapBuffers(s) ==
    [s EXCEPT !.m_nDrawCalls = 0, !.m_nLines = 0, !.m_nPoints = 0,
              !.m_nTriangles = 0, !.m_nVerts = 0]



-----------------------------------------------------------------------------
(* Camera and viewport.  Lengths, zoom factors and pixel coordinates are    *)
(* doubles in the program; here they are exact fractions <<n, d>> in lowest *)
(* terms with d > 0, so that a conversion is computed, step by step, as the *)
(* code computes it, without the rounding.  The camera angle is counted in  *)
(* quarter turns, for which sine and cosine are exact.                      *)

GRAPHICS_PX_PER_METER == 2

Abs(n) == IF n < 0 THEN -n ELSE n

RECURSIVE GCD(_, _)
GCD(a, b) == IF b = 0 THEN a ELSE GCD(b, a % b)

Sign(n) == IF n < 0 THEN -1 ELSE 1

\* The fraction n / d, d # 0, in lowest terms.
Frac(n, d) ==
    IF n = 0 THEN <<0, 1>>
    ELSE <<(Sign(d) * n) \div GCD(Abs(n), Abs(d)), Abs(d) \div GCD(Abs(n), Abs(d))>>

Whole(n) == <<n, 1>>
Plus(a, b) == Frac((a[1] * b[2]) + (b[1] * a[2]), a[2] * b[2])
Neg(a) == <<-a[1], a[2]>>
Minus(a, b) == Plus(a, Neg(b))
Times(a, b) == Frac(a[1] * b[1], a[2] * b[2])
Over(a, b) == Frac(a[1] * b[2], a[2] * b[1])

Origin == <<Whole(0), Whole(0)>>

\* Cosine and sine of k quarter turns.
Cos(k) == Whole(<<1, 0, -1, 0>>[(k % 4) + 1])
Sin(k) == Whole(<<0, 1, 0, -1>>[(k % 4) + 1])

\* Rotation2Dd(k quarter turns) * v
Rotated(k, v) ==
    <<Minus(Times(Cos(k), v[1]), Times(Sin(k), v[2])),
      Plus(Times(Sin(k), v[1]), Times(Cos(k), v[2]))>>

\* A viewport whose planes start at the screen's corner instead of being
\* centred on the origin.
resizeViewport_FromCorner(s, w, h) ==
    [s EXCEPT !.m_unWidthScr = w, !.m_unHeightScr = h,
              !.m_ViewPort =
                  [leftplane   |-> Whole(0),
                   rightplane  |-> Frac(w, GRAPHICS_PX_PER_METER),
                   bottomplane |-> Whole(0),
                   topplane    |-> Frac(h, GRAPHICS_PX_PER_METER)]]

\* resizeViewport(_unWidthScr, _unHeightScr): the planes are half the
\* resolution times 1 / GRAPHICS_PX_PER_METER, either side of zero.
resizeViewport(s, w, h) ==
    [s EXCEPT !.m_unWidthScr = w, !.m_unHeightScr = h,
              !.m_ViewPort =
                  [leftplane   |-> Neg(Times(Whole(w), Frac(1, 2 * GRAPHICS_PX_PER_METER))),
                   rightplane  |-> Times(Whole(w), Frac(1, 2 * GRAPHICS_PX_PER_METER)),
                   bottomplane |-> Neg(Times(Whole(h), Frac(1, 2 * GRAPHICS_PX_PER_METER))),
                   topplane    |-> Times(Whole(h), Frac(1, 2 * GRAPHICS_PX_PER_METER))]]

resetCam(s) == [s EXCEPT !.m_fCamZoom = Whole(1), !.m_fCamAng = 0, !.m_vecCamPos = Origin]
rotCamTo(s, k) == [s EXCEPT !.m_fCamAng = k]
transCamTo(s, v) == [s EXCEPT !.m_vecCamPos = Rotated(s.m_fCamAng, v)]
zoomCamTo(s, f) == [s EXCEPT !.m_fCamZoom = f]

\* fX and fY of screen2World: the pixel scaled to the viewport, over the zoom.
Unzoomed(s, p) ==
    <<Over(Plus(Times(Over(Minus(s.m_ViewPort.rightplane, s.m_ViewPort.leftplane),
                           Whole(s.m_unWidthScr)), p[1]),
                s.m_ViewPort.leftplane),
           s.m_fCamZoom),
      Over(Plus(Times(Over(Minus(s.m_ViewPort.topplane, s.m_ViewPort.bottomplane),
                           Whole(s.m_unHeightScr)), p[2]),
                s.m_ViewPort.bottomplane),
           s.m_fCamZoom)>>

\* With fL = sqrt(fX*fX + fY*fY) and fAtan = atan2(fX, fY), so that
\* fL * sin(fAtan) = fX and fL * cos(fAtan) = fY:
\*   fL * cos(fAtan - (pi/2 - a)) =   fX * cos(a) + fY * sin(a)
\*   fL * sin(fAtan - (pi/2 - a)) = -(fY * cos(a) - fX * sin(a))
Turned(k, f) ==
    <<Plus(Times(f[1], Cos(k)), Times(f[2], Sin(k))),
      Neg(Minus(Times(f[2], Cos(k)), Times(f[1], Sin(k))))>>

\* vecResult[0] = ... + m_vecCamPos[0]; vecResult[1] = ... - m_vecCamPos[1];
Offset(s, v) == <<Plus(v[1], s.m_vecCamPos[1]), Minus(v[2], s.m_vecCamPos[2])>>

\* screen2World(_vecV)
screen2World(s, p) == Offset(s, Turned(s.m_fCamAng, Unzoomed(s, p)))

\* Rot * Vector2d(_vecV[0], -_vecV[1]) * m_fCamZoom
\*     - Vector2d(m_ViewPort.leftplane, -m_ViewPort.topplane)
Zoomed(s, v) ==
    <<Minus(Times(Rotated(s.m_fCamAng, <<v[1], Neg(v[2])>>)[1], s.m_fCamZoom),
            s.m_ViewPort.leftplane),
      Plus(Times(Rotated(s.m_fCamAng, <<v[1], Neg(v[2])>>)[2], s.m_fCamZoom),
           s.m_ViewPort.topplane)>>

\* ... * m_unWidthScr / (m_ViewPort.rightplane - m_ViewPort.leftplane)
InPixels(s, v) ==
    <<Over(Times(v[1], Whole(s.m_unWidthScr)),
           Minus(s.m_ViewPort.rightplane, s.m_ViewPort.leftplane)),
      Over(Times(v[2], Whole(s.m_unWidthScr)),
           Minus(s.m_ViewPort.rightplane, s.m_ViewPort.leftplane))>>

\* world2Screen(_vecV)
world2Screen(s, v) == InPixels(s, Zoomed(s, v))

(***************************************************************************)
(* The circle and the arc whose number of segments follows the zoom.  The  *)
(* constants GRAPHICS_CIRCLE_SEG_ANG, GRAPHICS_CIRCLE_SEG_MIN and          *)
(* GRAPHICS_CIRCLE_SEG_MAX are passed as the record c (fields ang, min,    *)
(* max), the value of getResPMX() as res; all numbers are fractions.  The  *)
(* vertices are told apart by their rank on the curve, as for circle().    *)
(***************************************************************************)

Less(a, b) == a[1] * b[2] < b[1] * a[2]

Floor(a) == a[1] \div a[2]

\* 2 pi, as 2 * 355 / 113.
MATH_2PI == <<710, 113>>

\* double fSegPx = GRAPHICS_CIRCLE_SEG_ANG * this->getResPMX() * _fRad;
fSegPx(c, res, rad) == Times(Times(c.ang, res), rad)

\* fSegPx = bound; fSurfPx = getResPMX() * _fRad; fInc = fSegPx / fSurfPx;
Rescaled(bound, res, rad) == Over(bound, Times(res, rad))

\* fInc of drawArcDyn: rescaled only below the minimum.
fIncArc(c, res, rad) ==
    IF Less(fSegPx(c, res, rad), c.min) THEN Rescaled(c.min, res, rad) ELSE c.ang

\* fInc of drawCircleDyn
fIncCircle(c, res, rad) ==
    IF Less(fSegPx(c, res, rad), c.min) THEN Rescaled(c.min, res, rad)
    ELSE IF Less(c.max, fSegPx(c, res, rad)) THEN Rescaled(c.max, res, rad)
    ELSE c.ang

\* Iterations of "while (fAng < MATH_2PI)" from fAng = 0 in steps of fInc.
CircleVertices(fInc) == Floor(Over(MATH_2PI, fInc)) + 1

\* Iterations of "while (fAng < fAngN + fInc)" over an arc of the angle d:
\* where d is a whole number of steps the rounded sums decide whether the
\* last comparison holds (extra).
ArcVertices(d, fInc, extra) ==
    IF Over(d, fInc)[2] = 1
    THEN Over(d, fInc)[1] + 1 + (IF extra /\ Over(d, fInc)[1] > 0 THEN 1 ELSE 0)
    ELSE Floor(Over(d, fInc)) + 2

RECURSIVE AddVertices(_, _, _)
\* The calls of addVertex for the vertices of rank k to n.
AddVertices(s, k, n) ==
    IF k > n THEN s
    ELSE CHOOSE r \in {AddVertices(t, k + 1, n) : t \in {addVertex(s, Vertex(k))}} : TRUE

\* The angle between _fAng0 and _fAngN, after the swap that orders them.
ArcAngle(fAng0, fAngN) ==
    IF Less(fAngN, fAng0) THEN Minus(fAng0, fAngN) ELSE Minus(fAngN, fAng0)

\* drawArcDyn(_vecC, _fRad, _fAng0, _fAngN)
drawArcDyn(s, c, res, rad, fAng0, fAngN, extra) ==
    endLine(AddVertices(beginLine(s, "LINE_STRIP"), 1,
                        ArcVertices(ArcAngle(fAng0, fAngN), fIncArc(c, res, rad), extra)))

\* drawCircleDyn(_vecC, _fRad)
drawCircleDyn(s, c, res, rad) ==
    endLine(AddVertices(beginLine(s, "LINE_LOOP"), 1,
                        CircleVertices(fIncCircle(c, res, rad))))

(***************************************************************************)
(* The state machine.  g is the CGraphics singleton, call the operation    *)
(* performed last, lineOpen whether the caller is between beginLine and    *)
(* endLine (callers end a line before they do anything else) and lineLen   *)
(* the number of vertices the caller has passed to the open line.  ops     *)
(* counts the operations of a run in the specifications that explore every *)
(* sequence of at most MaxOps operations.  hist (the operations of the run *)
(* so far) and drawn (the draws the device has received, each with the     *)
(* position in hist of the operation that issued it) are kept by the       *)
(* specifications that follow one scenario from construction.              *)
(***************************************************************************)
VARIABLES g, call, lineOpen, lineLen, ops, hist, drawn

vars == <<g, call, lineOpen, lineLen, ops, hist, drawn>>

\* Sizes of the inputs explored.
MaxVerts == 13
MaxSeg == 4
MaxDots == 13
MaxUV == 8
MaxOps == 4
MaxRun == 7
MaxPoints == 16
MaxPre == 4
MaxOrder == 6
Stride == 20

Init ==
    /\ g = Constructed
    /\ call = [op |-> "CGraphics"]
    /\ lineOpen = FALSE
    /\ lineLen = 0
    /\ ops = 0
    /\ hist = << >>
    /\ drawn = << >>

\* Every operation starts with an empty record of device calls and warnings.
Start == [g EXCEPT !.dev = << >>, !.alloc = << >>, !.warn = 0]

Live == g.fault = "none"

Idle == Live /\ ~lineOpen

Done(s, c) == g' = s /\ call' = c

BeginRenderBatch(m, force) ==
    /\ Idle
    /\ force \/ Len(g.m_RenderModeStack) < MaxDepth
    /\ Done(beginRenderBatch(Start, m, force),
            [op |-> "beginRenderBatch", mode |-> m, force |-> force])
    /\ UNCHANGED <<lineOpen, lineLen>>

EndRenderBatch(force) ==
    /\ Idle
    /\ Done(endRenderBatch(Start, force), [op |-> "endRenderBatch", force |-> force])
    /\ UNCHANGED <<lineOpen, lineLen>>

RestartRenderBatch(m) ==
    /\ Idle
    /\ Done(restartRenderBatch(Start, m), [op |-> "restartRenderBatch", mode |-> m])
    /\ UNCHANGED <<lineOpen, lineLen>>

BeginRenderBatchByName(name) ==
    /\ Idle
    /\ Len(g.m_RenderModeStack) < MaxDepth
    /\ Done(beginRenderBatchByName(Start, name),
            [op |-> "beginRenderBatchByName", name |-> name, ret |-> Found(name)])
    /\ UNCHANGED <<lineOpen, lineLen>>

RestartRenderBatchByName(name) ==
    /\ Idle
    /\ Done(restartRenderBatchByName(Start, name),
            [op |-> "restartRenderBatchByName", name |-> name, ret |-> Found(name)])
    /\ UNCHANGED <<lineOpen, lineLen>>

SwapBuffers ==
    /\ g.fault = "none" /\ ~lineOpen
    /\ g.m_nDrawCalls > 0
    /\ Done(swapBuffers(Start), [op |-> "swapBuffers"])
    /\ UNCHANGED <<lineOpen, lineLen>>

Dot ==
    /\ Idle
    /\ Done(dot(Start, Vertex(1)), [op |-> "dot"])
    /\ UNCHANGED <<lineOpen, lineLen>>

Dots(n) ==
    /\ Idle
    /\ Done(dots(Start, n), [op |-> "dots", n |-> n])
    /\ UNCHANGED <<lineOpen, lineLen>>

BeginLine(type) ==
    /\ Idle
    /\ Done(beginLine(Start, type), [op |-> "beginLine", type |-> type])
    /\ lineOpen' = TRUE
    /\ lineLen' = 0

\* The caller passes the vertices of one line in turn: Vertex(1), Vertex(2), ...
AddVertex ==
    /\ Live /\ lineOpen
    /\ lineLen < MaxVerts
    /\ Done(addVertex(Start, Vertex(lineLen + 1)), [op |-> "addVertex"])
    /\ lineLen' = lineLen + 1
    /\ UNCHANGED lineOpen

EndLine ==
    /\ Live /\ lineOpen
    /\ Done(endLine(Start), [op |-> "endLine"])
    /\ lineOpen' = FALSE
    /\ UNCHANGED lineLen

Polygon(n, type) ==
    /\ Idle
    /\ Done(polygon(Start, n, type), [op |-> "polygon", n |-> n, type |-> type])
    /\ UNCHANGED <<lineOpen, lineLen>>

Circle(nSeg, bCache, extra) ==
    /\ Idle
    /\ Done(circle(Start, nSeg, bCache, extra),
            [op |-> "circle", nSeg |-> nSeg, bCache |-> bCache])
    /\ UNCHANGED <<lineOpen, lineLen>>

FilledCircle(nSeg, bCache, extra) ==
    /\ Idle
    /\ Done(filledCircle(Start, nSeg, bCache, extra),
            [op |-> "filledCircle", nSeg |-> nSeg, bCache |-> bCache])
    /\ UNCHANGED <<lineOpen, lineLen>>

FilledRect ==
    /\ Idle
    /\ Done(filledRect(Start), [op |-> "filledRect"])
    /\ UNCHANGED <<lineOpen, lineLen>>

\* dot(v) and rect(ll, ur) at positions of the caller's choice.
DotAt(v) ==
    /\ Idle
    /\ Done(dot(Start, v), [op |-> "dot"])
    /\ UNCHANGED <<lineOpen, lineLen>>

RectAt(vs) ==
    /\ Idle
    /\ Done(rectAt(Start, vs), [op |-> "rect"])
    /\ UNCHANGED <<lineOpen, lineLen>>

FilledTriangle ==
    /\ Idle
    /\ Done(filledTriangle(Start), [op |-> "filledTriangle"])
    /\ UNCHANGED <<lineOpen, lineLen>>

Rect ==
    /\ Idle
    /\ Done(rect(Start), [op |-> "rect"])
    /\ UNCHANGED <<lineOpen, lineLen>>

TexturedRect(nUV) ==
    /\ Idle
    /\ Done(texturedRect(Start, nUV), [op |-> "texturedRect", nUV |-> nUV])
    /\ UNCHANGED <<lineOpen, lineLen>>

TexturedRect2(nUV0, nUV1) ==
    /\ Idle
    /\ Done(texturedRect2(Start, nUV0, nUV1),
            [op |-> "texturedRect2", nUV |-> nUV0])
    /\ UNCHANGED <<lineOpen, lineLen>>

\* One more operation of a run of at most MaxOps operations.
Counted == ops < MaxOps /\ ops' = ops + 1 /\ UNCHANGED <<hist, drawn>>

\* An operation of the specification of unbounded runs: it keeps no record of
\* the run, and the frame is swapped before its draw-call counter passes
\* MaxDrawCalls.
Quiet == g.m_nDrawCalls < MaxDrawCalls /\ UNCHANGED <<ops, hist, drawn>>

\* The draws among the device calls of the operation just performed.
DrawsOf(s, at) ==
    LET d == SelectSeq(s.dev, LAMBDA e : e.op = "draw")
    IN  [i \in 1..Len(d) |-> [at |-> at, ev |-> d[i]]]

\* The operation just performed joins the record of the run.
Logged ==
    /\ hist' = Append(hist, call')
    /\ drawn' = drawn \o DrawsOf(g', Len(hist) + 1)
    /\ UNCHANGED ops

\* The batch protocol around one emitter: every order of begin, end and restart.
Next ==
    \/ \E m \in BatchModes, force \in BOOLEAN : BeginRenderBatch(m, force) /\ Quiet
    \/ \E force \in BOOLEAN : EndRenderBatch(force) /\ Quiet
    \/ \E m \in BatchModes : RestartRenderBatch(m) /\ Quiet
    \/ SwapBuffers /\ UNCHANGED <<ops, hist, drawn>>
    \/ Dot /\ Quiet

Spec == Init /\ [][Next]_vars

\* Every emitter, inside and outside a batch: every run of at most MaxOps operations.
NextEmit ==
    \/ \E m \in {"world", "font"} : Counted /\ BeginRenderBatch(m, FALSE)
    \/ Counted /\ EndRenderBatch(FALSE)
    \/ Counted /\ Dot
    \/ \E n \in {nBatchSize, MaxDots} : Counted /\ Dots(n)
    \/ \E type \in PolygonTypes : Counted /\ BeginLine(type)
    \/ Counted /\ AddVertex
    \/ Counted /\ EndLine
    \/ \E n \in {2, MaxVerts}, type \in {"LINE_SINGLE", "LINE_LOOP"} :
           Counted /\ Polygon(n, type)
    \/ \E nSeg \in {3, MaxSeg}, bCache \in BOOLEAN, extra \in BOOLEAN :
           Counted /\ (bCache => ~extra) /\ Circle(nSeg, bCache, extra)
    \/ \E nSeg \in {3, MaxSeg}, bCache \in BOOLEAN, extra \in BOOLEAN :
           Counted /\ (bCache => ~extra) /\ FilledCircle(nSeg, bCache, extra)
    \/ Counted /\ FilledRect
    \/ Counted /\ FilledTriangle
    \/ Counted /\ Rect
    \/ Counted /\ TexturedRect(MaxUV)
    \/ Counted /\ TexturedRect2(MaxUV, MaxUV)

SpecEmit == Init /\ [][NextEmit]_vars

\* Nested scopes: every run of at most MaxRun non-forced begins, ends and dots.
NextNest ==
    \/ \E m \in BatchModes : Len(hist) < MaxRun /\ BeginRenderBatch(m, FALSE) /\ Logged
    \/ Len(hist) < MaxRun /\ EndRenderBatch(FALSE) /\ Logged
    \/ Len(hist) < MaxRun /\ Dot /\ Logged

SpecNest == Init /\ [][NextNest]_vars

\* The batch protocol driven by name, as the widgets drive it.
NextNames ==
    \/ \E name \in RenderModeNames : BeginRenderBatchByName(name) /\ Quiet
    \/ \E name \in RenderModeNames : RestartRenderBatchByName(name) /\ Quiet
    \/ EndRenderBatch(FALSE) /\ Quiet
    \/ SwapBuffers /\ UNCHANGED <<ops, hist, drawn>>
    \/ Dot /\ Quiet

SpecNames == Init /\ [][NextNames]_vars

\* Points and lines in nested scopes, every primitive at a position of its
\* own: the k-th operation of the run draws at Vertex(Stride * k) and after it,
\* the one call of dots at Vertex(1) and after it.
Here == Stride * (Len(hist) + 1)

NextOrder ==
    \/ \E m \in {"world", "font"} :
           Len(hist) < MaxOrder /\ BeginRenderBatch(m, FALSE) /\ Logged
    \/ Len(hist) < MaxOrder /\ EndRenderBatch(FALSE) /\ Logged
    \/ Len(hist) < MaxOrder /\ DotAt(Vertex(Here)) /\ Logged
    \/ Len(hist) < MaxOrder /\ RectAt([k \in 1..4 |-> Vertex(Here + k)]) /\ Logged
    \/ \E n \in {(2 * nBatchSize) + 1} :
           /\ Len(hist) < MaxOrder
           /\ \A i \in 1..Len(hist) : hist[i].op # "dots"
           /\ Dots(n) /\ Logged

SpecOrder == Init /\ [][NextOrder]_vars

\* The inputs the camera and the conversions are explored with.
Resolutions == {<<800, 600>>, <<3, 5>>, <<1, 1>>}
Zooms == {Whole(1), Whole(2), Frac(1, 2)}
QuarterTurns == 0..3
CamPositions == {Origin, <<Whole(1), Whole(0)>>, <<Frac(1, 2), Whole(-2)>>}
ScreenCentre(s) == <<Frac(s.m_unWidthScr, 2), Frac(s.m_unHeightScr, 2)>>
Pixels(s) == {ScreenCentre(s), <<Whole(0), Whole(0)>>, <<Whole(1), Whole(2)>>}

\* The viewport has been given a size.
Sized == g.m_ViewPort.rightplane # g.m_ViewPort.leftplane

Still == UNCHANGED <<lineOpen, lineLen, ops, hist, drawn>>

ResizeViewport(w, h) ==
    Done(resizeViewport(Start, w, h), [op |-> "resizeViewport", w |-> w, h |-> h]) /\ Still

ResetCam == Done(resetCam(Start), [op |-> "resetCam"]) /\ Still
RotCamTo(k) == Done(rotCamTo(Start, k), [op |-> "rotCamTo"]) /\ Still
TransCamTo(v) == Done(transCamTo(Start, v), [op |-> "transCamTo"]) /\ Still
ZoomCamTo(f) == Done(zoomCamTo(Start, f), [op |-> "zoomCamTo"]) /\ Still

Screen2World(p) ==
    /\ Sized
    /\ Done(Start, [op |-> "screen2World", p |-> p, ret |-> screen2World(g, p)])
    /\ Still

World2Screen(v) ==
    /\ Sized
    /\ Done(Start, [op |-> "world2Screen", v |-> v, ret |-> world2Screen(g, v)])
    /\ Still

\* The world positions a caller has at hand: the origin, and what
\* screen2World has just returned.
Worlds == IF call.op = "screen2World" THEN {Origin, call.ret} ELSE {Origin}

\* The camera, the viewport and the two conversions.
NextCam ==
    \/ \E r \in Resolutions : ResizeViewport(r[1], r[2])
    \/ ResetCam
    \/ \E k \in QuarterTurns : RotCamTo(k)
    \/ \E v \in CamPositions : TransCamTo(v)
    \/ \E f \in Zooms : ZoomCamTo(f)
    \/ \E p \in Pixels(g) : Screen2World(p)
    \/ \E v \in Worlds : World2Screen(v)

SpecCam == Init /\ [][NextCam]_vars

\* Flushes under every render mode, by the end of a batch and by overflow.
NextFlush ==
    \/ \E m \in RenderModes : Counted /\ BeginRenderBatch(m, FALSE)
    \/ Counted /\ EndRenderBatch(FALSE)
    \/ Counted /\ Dot
    \/ Counted /\ Dots(MaxDots)
    \/ Counted /\ FilledTriangle

SpecFlush == Init /\ [][NextFlush]_vars

\* A point workload: a fresh batch, then either dot() over and over or one
\* dots() call, then the end of the batch.
NextDots ==
    \/ \E m \in BatchModes : hist = << >> /\ BeginRenderBatch(m, FALSE) /\ Logged
    \/ /\ hist # << >>
       /\ Len(hist) <= MaxPoints
       /\ \A i \in 2..Len(hist) : hist[i].op = "dot"
       /\ Dot /\ Logged
    \/ \E n \in 1..MaxPoints : Len(hist) = 1 /\ Dots(n) /\ Logged
    \/ /\ Len(hist) >= 2
       /\ hist[Len(hist)].op # "endRenderBatch"
       /\ EndRenderBatch(FALSE) /\ Logged

SpecDots == Init /\ [][NextDots]_vars

\* One line in a batch: a fresh batch, at most MaxPre dots, then beginLine,
\* the vertices one by one, endLine and the end of the batch.
NextLine ==
    \/ hist = << >> /\ BeginRenderBatch("world", FALSE) /\ Logged
    \/ /\ hist # << >>
       /\ Len(hist) <= MaxPre
       /\ \A i \in 2..Len(hist) : hist[i].op = "dot"
       /\ Dot /\ Logged
    \/ \E type \in PolygonTypes :
           /\ hist # << >>
           /\ \A i \in 2..Len(hist) : hist[i].op = "dot"
           /\ BeginLine(type) /\ Logged
    \/ AddVertex /\ Logged
    \/ EndLine /\ Logged
    \/ /\ hist # << >>
       /\ hist[Len(hist)].op = "endLine"
       /\ EndRenderBatch(FALSE) /\ Logged

SpecLine == Init /\ [][NextLine]_vars

-----------------------------------------------------------------------------
(* Nesting of two scopes.                                                  *)

IsBatchOp(c) == c.op \in {"beginRenderBatch", "endRenderBatch"}

\* The begins and ends of the run, without the emitter calls between them.
BatchOps == SelectSeq(hist, IsBatchOp)

\* The position in the run of its k-th begin or end.
NthBatchOp(k) ==
    CHOOSE i \in 1..Len(hist) :
        IsBatchOp(hist[i]) /\ Cardinality({j \in 1..i : IsBatchOp(hist[j])}) = k

\* begin(A), begin(B), end(), end() from the empty stack, B another mode than
\* A, with dots between them that never reach the flush threshold.
NestedRun ==
    /\ Len(BatchOps) = 4
    /\ BatchOps[1].op = "beginRenderBatch"
    /\ BatchOps[2].op = "beginRenderBatch"
    /\ BatchOps[3].op = "endRenderBatch"
    /\ BatchOps[4].op = "endRenderBatch"
    /\ \A i \in 1..Len(drawn) : drawn[i].ev.cause = "end"

ModeA == BatchOps[1].mode
ModeB == BatchOps[2].mode

\* The draws of the run: which operation issued each and under which mode.
Submissions == [i \in 1..Len(drawn) |-> <<drawn[i].at, drawn[i].ev.mode>>]

\* C1 (as stated): begin(A), begin(B), end(), end() with B a different mode
\* than A gives exactly two flush+draw submissions, the first at begin(B) and
\* the second at the final end, and the stack is empty afterwards.
C1_TwoSubmissions ==
    (NestedRun /\ ModeA # ModeB) =>
        /\ Len(drawn) = 2
        /\ drawn[1].at = NthBatchOp(2)
        /\ drawn[2].at = NthBatchOp(4)
        /\ g.m_RenderModeStack = << >>

\* C1 (amended): when the render-mode types of A and B differ, the run gives
\* exactly three flush+draw submissions: at begin(B) under A, at the inner end
\* under B (the return to A ends the batch of B) and at the final end under
\* A, in that order, and the stack is empty afterwards.
C1_ThreeSubmissions ==
    (NestedRun /\ getRenderModeType(ModeA) # getRenderModeType(ModeB)) =>
        /\ g.m_RenderModeStack = << >>
        /\ g.fault = "none"
        /\ Submissions = << <<NthBatchOp(2), ModeA>>,
                            <<NthBatchOp(3), ModeB>>,
                            <<NthBatchOp(4), ModeA>> >>

\* A nested run over two types with a dot in each of the two scopes.
C1_Witness ==
    /\ NestedRun
    /\ getRenderModeType(ModeA) # getRenderModeType(ModeB)
    /\ Len(hist) = 6
    /\ hist[2].op = "dot" /\ hist[4].op = "dot"
    /\ Len(drawn) = 3

-----------------------------------------------------------------------------
(* Cursors, stack and current mode.                                        *)

Cursors(s) ==
    {s.m_unIndexVerts, s.m_unIndexCol, s.m_unIndexUV0, s.m_unIndexUV1,
     s.m_unIndexLines, s.m_unIndexPoints, s.m_unIndexTriangles}

\* C3 (as stated): in every reachable state each write cursor (vertex, colour,
\* UV0, UV1, line index, point index, triangle index) is at most the capacity
\* of its buffer.
C3_CursorsWithinCapacity == \A c \in Cursors(g) : c <= m_unIndexMax

\* C4 (as stated): whenever the mode stack is non-empty, the mode on top of
\* it is the current render mode.
C4_TopIsCurrent ==
    g.m_RenderModeStack # << >> =>
        g.m_RenderModeStack[Len(g.m_RenderModeStack)] = g.m_pRenderMode

IsCall(c, op) == c.op = op

IsBegin(c, force) == IF c.op = "beginRenderBatch" THEN c.force = force ELSE FALSE

IsEnd(c, force) == IF c.op = "endRenderBatch" THEN c.force = force ELSE FALSE

Emitters ==
    {"dot", "dots", "addVertex", "endLine", "polygon", "circle", "filledCircle",
     "filledRect", "filledTriangle", "rect", "texturedRect", "texturedRect2"}

InternalFlushes(s) == SelectSeq(s.dev, LAMBDA e : e.op = "draw" /\ e.cause = "internal")

\* C6: an emitter call during which the internal flush happens leaves the
\* mode stack, the current render mode and the current render-mode type as
\* they were, whichever emitter it is.
C6_InternalFlushKeepsStack ==
    [][InternalFlushes(g') # << >> =>
          /\ call'.op \in Emitters
          /\ g'.m_RenderModeStack = g.m_RenderModeStack
          /\ g'.m_pRenderMode = g.m_pRenderMode
          /\ g'.m_RenderModeType = g.m_RenderModeType]_vars

\* An internal flush inside a nested scope, triggered by a rectangle.
C6_Witness ==
    /\ call.op = "rect"
    /\ InternalFlushes(g) # << >>
    /\ Len(g.m_RenderModeStack) = 2
    /\ g.fault = "none"

\* C8: a non-forced beginRenderBatch(mode) pushes exactly one entry, mode:
\* the stack afterwards is the stack before with mode appended, whatever the
\* stack held.
C8_BeginPushesOne ==
    [][IsBegin(call', FALSE) =>
          /\ g'.m_RenderModeStack = Append(g.m_RenderModeStack, call'.mode)
          /\ g'.fault = "none"]_vars

\* A non-forced begin on a stack of two whose top has another type, so that
\* the begin has flushed before it pushed.
C8_Witness ==
    /\ IsBegin(call, FALSE)
    /\ Len(g.m_RenderModeStack) = 3
    /\ Len(g.dev) = 2

AllZero(s) ==
    /\ s.m_uncI = 0
    /\ s.m_unIndex = 0
    /\ Cursors(s) = {0}

\* C9: beginRenderBatch(mode, true) leaves the mode stack as it was and sets
\* the cost counter, the vertex ordinal and every write cursor to zero.
C9_ForcedBegin ==
    [][IsBegin(call', TRUE) =>
          /\ g'.m_RenderModeStack = g.m_RenderModeStack
          /\ AllZero(g')
          /\ g'.fault = "none"]_vars

\* A forced begin inside a scope, after a dot had been written (its vertex
\* is still in the buffer) and not flushed.
C9_Witness ==
    /\ IsBegin(call, TRUE)
    /\ g.m_RenderModeStack # << >>
    /\ g.m_vecVertices[1] # 0
    /\ g.m_nPoints = 0
    /\ AllZero(g)

\* C10 (as stated): a non-forced beginRenderBatch(mode) on a non-empty stack
\* whose top is another mode than mode first flushes and draws what is
\* buffered under the previously current mode, without popping, and only then
\* binds mode and resets the cursors.
C10_FlushThenBind ==
    [][(/\ IsBegin(call', FALSE)
        /\ g.m_RenderModeStack # << >>
        /\ g.m_RenderModeStack[Len(g.m_RenderModeStack)] # call'.mode) =>
          /\ g'.dev = <<DrawEvent(g, "end"), BindEvent(call'.mode)>>
          /\ g'.m_RenderModeStack = Append(g.m_RenderModeStack, call'.mode)
          /\ g'.m_pRenderMode = call'.mode
          /\ AllZero(g')]_vars

-----------------------------------------------------------------------------
(* Point workloads.                                                        *)

\* A finished workload of dot() calls, and one of a single dots() call.
DotRun ==
    /\ Len(hist) >= 3
    /\ hist[Len(hist)].op = "endRenderBatch"
    /\ \A i \in 2..Len(hist) - 1 : hist[i].op = "dot"

DotsRun == Len(hist) = 3 /\ hist[2].op = "dots" /\ hist[3].op = "endRenderBatch"

\* The number of points of the workload.
NrOfPoints == IF DotsRun THEN hist[2].n ELSE Len(hist) - 2

Generic == getRenderModeType(hist[1].mode) = "VERT3COL4"

NrOfInternalFlushes == Cardinality({i \in 1..Len(drawn) : drawn[i].ev.cause = "internal"})

RECURSIVE SumPoints(_)
SumPoints(i) == IF i = 0 THEN 0 ELSE drawn[i].ev.nPoints + SumPoints(i - 1)

\* The points uploaded for drawing over all flushes of the run.
PointsSubmitted == SumPoints(Len(drawn))

CeilDiv(a, b) == (a + b - 1) \div b

\* C7 (as stated): n points in a fresh batch, by n dot() calls or by one
\* dots() call, give ceil(4n / (C/2)) - 1 internal flushes, and n points are
\* submitted over all flushes.
C7_CeilFlushes ==
    ((DotRun \/ DotsRun) /\ Generic) =>
        /\ NrOfInternalFlushes = CeilDiv(4 * NrOfPoints, Threshold) - 1
        /\ PointsSubmitted = NrOfPoints

\* C7 (amended): n dot() calls in a fresh batch give floor(n / ((C/2)/4 + 1))
\* internal flushes (dot() flushes after the write that takes the cost above
\* C/2); one dots() call with n points gives none when 4n <= C/2 and otherwise
\* 1 + floor(n / (C/8)) (one before the first point, one after each full
\* batch of C/8 points).  In the generic mode the points submitted over all
\* flushes, the final end included, are n.
C7_Flushes ==
    /\ DotRun =>
           NrOfInternalFlushes = NrOfPoints \div ((Threshold \div 4) + 1)
    /\ DotsRun =>
           NrOfInternalFlushes =
               IF 4 * NrOfPoints <= Threshold THEN 0
               ELSE 1 + (NrOfPoints \div nBatchSize)
    /\ ((DotRun \/ DotsRun) /\ Generic) =>
           /\ PointsSubmitted = NrOfPoints
           /\ g.fault = "none"

\* A dots() workload of two full batches and a rest, finished.
C7_Witness ==
    /\ DotsRun
    /\ Generic
    /\ NrOfPoints = 2 * nBatchSize + 1
    /\ NrOfInternalFlushes = 3
    /\ PointsSubmitted = NrOfPoints

-----------------------------------------------------------------------------
(* Lines split by the internal flush.                                      *)

\* The line segments the device has been given so far, as pairs of positions.
SegmentsOf(ev) == {<<ev.lines[2 * j - 1], ev.lines[2 * j]>> : j \in 1..(Len(ev.lines) \div 2)}

Segments == UNION {SegmentsOf(drawn[i].ev) : i \in 1..Len(drawn)}

RECURSIVE SumLines(_)
SumLines(i) == IF i = 0 THEN 0 ELSE (Len(drawn[i].ev.lines) \div 2) + SumLines(i - 1)

NrOfSegments == SumLines(Len(drawn))

\* A finished run whose line has the given type.
LineRun(type) ==
    /\ hist # << >>
    /\ hist[Len(hist)].op = "endRenderBatch"
    /\ \E i \in 1..Len(hist) : IsCall(hist[i], "beginLine") /\ hist[i].type = type

\* The closed cycle over the n vertices of the line.
Cycle(n) ==
    {<<Vertex(i), Vertex(i + 1)>> : i \in 1..n - 1} \cup {<<Vertex(n), Vertex(1)>>}

\* C2 (as stated): a LINE_LOOP of N vertices during which the internal flush
\* happens exactly once is submitted, over the two batches, as one closed
\* cycle: every vertex is joined to the next, across the split too, the last
\* to the first, and there are no other segments.
C2_SplitLoopIsClosed ==
    (LineRun("LINE_LOOP") /\ NrOfInternalFlushes = 1) =>
        /\ Segments = Cycle(lineLen)
        /\ NrOfSegments = lineLen

-----------------------------------------------------------------------------
(* The end of a scope and the restart of a batch.                          *)

Draws(s) == SelectSeq(s.dev, LAMBDA e : e.op = "draw")

\* The stack s.m_RenderModeStack without its top, and the mode below the top.
Below(s) == Pop(s.m_RenderModeStack)

\* C11 (as stated): a non-forced endRenderBatch on a non-empty stack removes
\* exactly the top entry, and it flushes and draws if and only if the stack
\* becomes empty or the mode of the new top differs from the mode that was
\* current before the call.
C11_EndPopsAndFlushes ==
    [][(IsEnd(call', FALSE) /\ g.m_RenderModeStack # << >>) =>
          /\ g'.m_RenderModeStack = Below(g)
          /\ Draws(g') # << >> <=>
                 IF Below(g) = << >> THEN TRUE
                 ELSE Top(Below(g)) # g.m_pRenderMode]_vars

\* C12 (as stated): a non-forced endRenderBatch that pops a scope whose mode
\* differs from the mode of the enclosing scope returns with the enclosing
\* mode current, every write cursor zero and the stack without its former
\* top.
C12_EndRestoresEnclosing ==
    [][(/\ IsEnd(call', FALSE)
        /\ Len(g.m_RenderModeStack) >= 2
        /\ Top(g.m_RenderModeStack) # Top(Below(g))) =>
          /\ g'.m_pRenderMode = Top(Below(g))
          /\ Cursors(g') = {0}
          /\ g'.m_RenderModeStack = Below(g)]_vars

IsRestart(c, m) == IF c.op = "restartRenderBatch" THEN c.mode = m ELSE FALSE

\* C13 (as stated): restartRenderBatch(mode) on a non-empty stack, with mode
\* current and at least one vertex written, submits the buffered geometry in
\* at least one flush+draw and leaves the depth of the stack and the current
\* mode as they were.
C13_RestartFlushes ==
    [][(/\ IsRestart(call', g.m_pRenderMode)
        /\ g.m_RenderModeStack # << >>
        /\ g.m_unIndexVerts > 0) =>
          /\ \E i \in 1..Len(Draws(g')) : Draws(g')[i].nVerts = g.m_unIndexVerts
          /\ Len(g'.m_RenderModeStack) = Len(g.m_RenderModeStack)
          /\ g'.m_pRenderMode = g.m_pRenderMode]_vars

-----------------------------------------------------------------------------
(* The name-keyed calls.                                                   *)

IsByName(c) == c.op \in {"beginRenderBatchByName", "restartRenderBatchByName"}

\* What a failed lookup must leave alone: the mode stack, the current mode,
\* the write cursors and the counters of the frame.
BatchState(s) ==
    <<s.m_RenderModeStack, s.m_pRenderMode, s.m_RenderModeType,
      s.m_uncI, s.m_unIndex, s.m_unIndexVerts, s.m_unIndexCol, s.m_unIndexUV0,
      s.m_unIndexUV1, s.m_unIndexLines, s.m_unIndexPoints, s.m_unIndexTriangles,
      s.m_nDrawCalls, s.m_nLines, s.m_nPoints, s.m_nTriangles, s.m_nVerts>>

\* C14: beginRenderBatch(name) and restartRenderBatch(name) with a name that
\* is not in the registry return false, log one warning, call nothing on the
\* device and leave the mode stack, the current mode, the write cursors and
\* the frame counters unchanged; with a registered name they return true.
C14_LookupByName ==
    [][IF ~IsByName(call') THEN TRUE
       ELSE IF call'.name \in DOMAIN m_RenderModesByName THEN call'.ret = TRUE
       ELSE /\ call'.ret = FALSE
            /\ BatchState(g') = BatchState(g)
            /\ g'.dev = << >> /\ g'.warn = 1]_vars

\* A lookup that fails inside a scope that holds geometry.
C14_Witness ==
    /\ IsByName(call)
    /\ ~call.ret
    /\ g.m_RenderModeStack # << >>
    /\ g.m_unIndexVerts > 0

-----------------------------------------------------------------------------
(* The fan of a filled circle.                                             *)

IsFilledCircle(c) == c.op = "filledCircle"

\* The triangle indices an emitter wrote on the step from s to t: the growth
\* of the triangle cursor, read from the draw if the emitter ended in a flush.
NrOfTriangleIndices(s, t) ==
    IF Draws(t) = << >> THEN t.m_unIndexTriangles - s.m_unIndexTriangles
    ELSE Draws(t)[1].nTris - s.m_unIndexTriangles

\* The first index of every triple written on the step from s to t is c.
FirstOfEveryTriple(s, t, c) ==
    \A k \in (s.m_unIndexTriangles + 1)..t.m_unIndexTriangles :
        (k - s.m_unIndexTriangles) % 3 = 1 => t.m_vecIndicesTriangles[k] = c

\* C19 (as stated): filledCircle with segment count S writes exactly S
\* triangle index triples, each starting with the ordinal of the centre
\* vertex, with the sin/cos cache and without it.
C19_FilledCircleFan ==
    [][IF ~IsFilledCircle(call') \/ ~Ok(g') THEN TRUE
       ELSE /\ NrOfTriangleIndices(g, g') = 3 * call'.nSeg
            /\ Draws(g') = << >> => FirstOfEveryTriple(g, g', g.m_unIndex)]_vars

\* The same for the cached branch alone, where it holds.
C19_CachedFan ==
    [][IF ~IsFilledCircle(call') \/ ~Ok(g') THEN TRUE
       ELSE call'.bCache =>
            /\ NrOfTriangleIndices(g, g') = 3 * call'.nSeg
            /\ Draws(g') = << >> => FirstOfEveryTriple(g, g', g.m_unIndex)]_vars

-----------------------------------------------------------------------------
(* The counters of the frame.                                              *)

\* The lines, points, triangles and vertices of one submitted batch e, added
\* to the four numbers r: two indices a line, three a triangle, three floats
\* a vertex.
PlusBatch(r, e) ==
    <<r[1] + (e.nLines \div 2), r[2] + e.nPoints,
      r[3] + (e.nTris \div 3), r[4] + (e.nVerts \div 3)>>

RECURSIVE Contained(_)
\* The lines, points, triangles and vertices of the batches of the draws d.
Contained(d) == IF d = << >> THEN <<0, 0, 0, 0>>
                ELSE PlusBatch(Contained(Tail(d)), Head(d))

FrameCounters(s) == <<s.m_nLines, s.m_nPoints, s.m_nTriangles, s.m_nVerts>>

Plus4(a, b) == <<a[1] + b[1], a[2] + b[2], a[3] + b[3], a[4] + b[4]>>

\* C20 (as stated): every flush, by endRenderBatch or internal, increases
\* the line, point, triangle and vertex counters of the frame by the numbers
\* of lines, points, triangles and vertices of the batch it submits.
C20_CountersCountPrimitives ==
    [][(Ok(g') /\ call'.op # "swapBuffers") =>
          FrameCounters(g') = Plus4(FrameCounters(g), Contained(Draws(g')))]_vars

-----------------------------------------------------------------------------
(* The order of submission.                                                *)

\* The primitives the i-th operation of the run emitted, each with its place
\* in the order of emission, the position of its first vertex and the index
\* stream it was written to.
PrimitivesOf(i) ==
    IF hist[i].op = "dot"
    THEN {[key |-> Stride * i, pos |-> Vertex(Stride * i), stream |-> "points"]}
    ELSE IF hist[i].op = "rect"
    THEN {[key |-> (Stride * i) + 1, pos |-> Vertex((Stride * i) + 1), stream |-> "lines"]}
    ELSE IF hist[i].op = "dots"
    THEN {[key |-> (Stride * i) + j, pos |-> Vertex(j), stream |-> "points"] :
             j \in 1..hist[i].n}
    ELSE {}

Primitives == UNION {PrimitivesOf(i) : i \in 1..Len(hist)}

StreamOf(ev, stream) ==
    IF stream = "points" THEN ev.points
    ELSE IF stream = "lines" THEN ev.lines
    ELSE ev.triangles

\* The d-th flush of the run drew primitive p.
Holds(d, p) ==
    \E k \in 1..Len(StreamOf(drawn[d].ev, p.stream)) :
        StreamOf(drawn[d].ev, p.stream)[k] = p.pos

FlushesOf(p) == {d \in 1..Len(drawn) : Holds(d, p)}

IsDrawn(p) == FlushesOf(p) # {}

\* The flush that submitted p first.
FirstFlush(p) == CHOOSE d \in FlushesOf(p) : \A e \in FlushesOf(p) : d <= e

\* The place of the draw call of p's index stream among the draw calls of
\* flush d.
RankIn(d, p) ==
    CHOOSE k \in 1..Len(drawn[d].ev.streams) : drawn[d].ev.streams[k] = p.stream

\* The draw call that submitted p first: the flush, and the place in it.
DrawCall(p) == <<FirstFlush(p), RankIn(FirstFlush(p), p)>>

NotAfter(a, b) == a[1] < b[1] \/ (a[1] = b[1] /\ a[2] <= b[2])

Emitted(p, q) == p.key < q.key /\ IsDrawn(p) /\ IsDrawn(q)

\* C15 (as stated): for any two primitives p and q emitted in that order, the
\* draw call that contains p is never issued after the draw call that
\* contains q.
C15_DrawCallOrder ==
    \A p \in Primitives : \A q \in Primitives :
        Emitted(p, q) => NotAfter(DrawCall(p), DrawCall(q))

\* C15 (amended): for any two primitives p and q emitted in that order, the
\* flush that submits p is never after the flush that submits q; the draw
\* calls of one flush are issued per index stream, lines before points before
\* triangles, whatever the order of emission; and the flushes are issued in
\* the order of the operations that cause them.
C15_FlushOrder ==
    /\ \A p \in Primitives : \A q \in Primitives :
           Emitted(p, q) => FirstFlush(p) <= FirstFlush(q)
    /\ \A d \in 1..Len(drawn) :
           drawn[d].ev.streams \in {<<"lines", "points", "triangles">>, <<"triangles">>}
    /\ \A d \in 1..(Len(drawn) - 1) : drawn[d].at <= drawn[d + 1].at

\* A point and a rectangle emitted after it leave in one flush, the lines
\* first, and a later primitive leaves in a later flush.
C15_Witness ==
    \E p \in Primitives : \E q \in Primitives : \E r \in Primitives :
        /\ Emitted(p, q) /\ Emitted(q, r)
        /\ p.stream = "points" /\ q.stream = "lines"
        /\ FirstFlush(p) = FirstFlush(q)
        /\ FirstFlush(q) < FirstFlush(r)

-----------------------------------------------------------------------------
(* The split of a line of single segments.                                 *)

\* The run draws a line of the given type, finished or not.
LineOf(type) == \E i \in 1..Len(hist) : IsCall(hist[i], "beginLine") /\ hist[i].type = type

\* The vertices of the line in the batch of draw ev: every vertex of the
\* batch but the dots before the line, which are one point each.
LineVerticesIn(ev) == (ev.nVerts \div 3) - ev.nPoints

\* The segments (v1, v2), (v3, v4), ... of a line of n vertices.
Pairs(n) == {<<Vertex((2 * i) - 1), Vertex(2 * i)>> : i \in 1..(n \div 2)}

\* C16: in a LINE_SINGLE line built with addVertex, a flush inside addVertex
\* happens only after an even number of vertices since the line was
\* (re)opened, all of them indexed in that batch; over the whole line the
\* segments submitted are exactly the pairs (v1, v2), (v3, v4), ..., none
\* split between two batches.
C16_SinglePairsKept ==
    /\ LineOf("LINE_SINGLE") =>
           \A d \in 1..Len(drawn) :
               hist[drawn[d].at].op = "addVertex" =>
                   /\ LineVerticesIn(drawn[d].ev) % 2 = 0
                   /\ Len(drawn[d].ev.lines) = LineVerticesIn(drawn[d].ev)
    /\ LineRun("LINE_SINGLE") =>
           /\ Segments = Pairs(lineLen)
           /\ NrOfSegments = lineLen \div 2

\* A line begun after some dots and split after its second vertex, and split
\* again further on.
C16_Witness ==
    /\ LineRun("LINE_SINGLE")
    /\ \E d \in 1..Len(drawn) :
           /\ hist[drawn[d].at].op = "addVertex"
           /\ drawn[d].ev.nPoints > 0
           /\ LineVerticesIn(drawn[d].ev) = 2
    /\ \E d \in 1..Len(drawn) :
           /\ hist[drawn[d].at].op = "addVertex"
           /\ drawn[d].ev.nPoints = 0
           /\ LineVerticesIn(drawn[d].ev) > 2

-----------------------------------------------------------------------------
(* The conversions between screen and world.                               *)

\* world2Screen has just been applied to what screen2World returned for the
\* pixel call.p.
RoundTrip ==
    IF call.op = "screen2World"
    THEN IF call'.op = "world2Screen" THEN call'.v = call.ret ELSE FALSE
    ELSE FALSE

\* C17 (as stated): for every camera state and every screen point P,
\* world2Screen(screen2World(P)) is P, camera positions other than zero
\* included.
C17_RoundTrip == [][RoundTrip => call'.ret = call.p]_vars

\* The same with the camera at position zero, at every angle and zoom.
C17_RoundTripAtZero ==
    [][(RoundTrip /\ g.m_vecCamPos = Origin) => call'.ret = call.p]_vars

IsScreen2World(c, p) == IF c.op = "screen2World" THEN c.p = p ELSE FALSE

\* C18: after resizeViewport(W, H), with the camera at position zero, zoom 1
\* and angle 0, screen2World of the screen centre (W/2, H/2) is the world
\* origin, for every W and H.
C18_CentreIsOrigin ==
    [][(/\ IsScreen2World(call', ScreenCentre(g))
        /\ g.m_vecCamPos = Origin
        /\ g.m_fCamZoom = Whole(1)
        /\ g.m_fCamAng = 0) => call'.ret = Origin]_vars

\* The centre of an 800 x 600 screen has been converted, the camera at identity.
C18_Witness ==
    /\ IsScreen2World(call, <<Whole(400), Whole(300)>>)
    /\ g.m_unWidthScr = 800 /\ g.m_unHeightScr = 600
    /\ g.m_vecCamPos = Origin /\ g.m_fCamZoom = Whole(1) /\ g.m_fCamAng = 0
    /\ call.ret = Origin

-----------------------------------------------------------------------------
(* The draws of a flush.                                                   *)

IsGeneric(m) == getRenderModeType(m) = "VERT3COL4"

RECURSIVE NrOfDrawCalls(_)
\* The indexed draws issued by the flushes d.
NrOfDrawCalls(d) == IF d = << >> THEN 0 ELSE Len(Head(d).streams) + NrOfDrawCalls(Tail(d))

\* C21: every flush under the generic mode type issues three indexed draws,
\* lines, points, triangles in that order, and raises the draw-call counter by
\* 3; every flush under a texture mode type issues one draw, of the
\* triangles, and raises the counter by 1; the flush of endRenderBatch and the
\* internal flush do the same.
C21_DrawsPerFlush ==
    [][(Ok(g') /\ call'.op # "swapBuffers") =>
          /\ \A i \in 1..Len(Draws(g')) :
                 Draws(g')[i].streams =
                     IF IsGeneric(Draws(g')[i].mode) THEN <<"lines", "points", "triangles">>
                     ELSE <<"triangles">>
          /\ g'.m_nDrawCalls = g.m_nDrawCalls + NrOfDrawCalls(Draws(g'))]_vars

\* An internal flush under the mode with two sets of texture coordinates,
\* counted as one draw call.
C21_Witness ==
    /\ Draws(g) # << >>
    /\ \E i \in 1..Len(Draws(g)) :
           /\ Draws(g)[i].cause = "internal"
           /\ Draws(g)[i].mode = "multi"
    /\ g.m_nDrawCalls = Len(Draws(g))

-----------------------------------------------------------------------------
(* The overflow policy of the emitters.                                    *)

\* The emitters that add to the cost counter.
Costed == Emitters \ {"endLine"}

\* C22 (as stated): whenever an emitter has returned, the cost counter is at
\* most half the capacity: a call that brings the cost above it flushes
\* before it returns.
C22_CostWithinThreshold ==
    [][(call'.op \in Costed /\ Ok(g')) => g'.m_uncI <= Threshold]_vars

\* The same for the emitters that test the cost after their writes: all but
\* polygon and addVertex.
C22_CheckedEmitters ==
    [][(call'.op \in Costed \ {"polygon", "addVertex"} /\ Ok(g')) =>
          g'.m_uncI <= Threshold]_vars

-----------------------------------------------------------------------------
(* The flush at the end of an emitter.                                     *)

\* The emitters that write a whole shape, vertices and indices, in one call.
Shapes ==
    {"circle", "filledCircle", "rect", "filledRect", "filledTriangle",
     "texturedRect", "texturedRect2"}

\* The indices is[from + 1 .. to] all lie in lo .. hi - 1.
IndicesWithin(is, from, to, lo, hi) == \A k \in (from + 1)..to : lo <= is[k] /\ is[k] < hi

\* The step from s to t wrote a shape and did not flush: the vertices are
\* those the ordinals count, and every new index is one of those ordinals.
WrittenTogether(s, t) ==
    /\ t.m_unIndexVerts - s.m_unIndexVerts = 3 * (t.m_unIndex - s.m_unIndex)
    /\ t.m_unIndex > s.m_unIndex
    /\ IndicesWithin(t.m_vecIndicesLines, s.m_unIndexLines, t.m_unIndexLines,
                     s.m_unIndex, t.m_unIndex)
    /\ IndicesWithin(t.m_vecIndicesTriangles, s.m_unIndexTriangles, t.m_unIndexTriangles,
                     s.m_unIndex, t.m_unIndex)

\* The step from s to t wrote a shape and flushed once, at its end: the one
\* draw holds the vertices and the indices of the call, and nothing was
\* written after the reset.
FlushedAtEnd(s, t) ==
    /\ Len(Draws(t)) = 1
    /\ Draws(t)[1].cause = "internal"
    /\ Draws(t)[1].nVerts > s.m_unIndexVerts
    /\ Draws(t)[1].nTris + Draws(t)[1].nLines > s.m_unIndexTriangles + s.m_unIndexLines
       \/ ~IsGeneric(Draws(t)[1].mode)
    /\ Cursors(t) = {0}

\* C23: circle, filledCircle, rect, filledRect, filledTriangle and both
\* texturedRect variants flush only after all their vertices and indices are
\* written: no reset of the cursors falls between the first and the last
\* write of one call, and every index of the call refers to a vertex of the
\* call, in the same batch.
C23_FlushAfterWrites ==
    [][(call'.op \in Shapes /\ Ok(g')) =>
          IF Draws(g') = << >> THEN WrittenTogether(g, g') ELSE FlushedAtEnd(g, g')]_vars

\* A rect that filled the buffers past the threshold and flushed.
C23_Witness ==
    /\ call.op = "rect"
    /\ Ok(g)
    /\ Draws(g) # << >>
    /\ Draws(g)[1].nLines >= 8

-----------------------------------------------------------------------------
(* The closing of a split loop.                                            *)

Loops == {"LINE_LOOP", "FILLED"}

\* The flushes that addVertex made in the run.
Splits == {d \in 1..Len(drawn) : hist[drawn[d].at].op = "addVertex"}

\* The lines of the last draw of the run, and the end of the last of them.
LastLines == drawn[Len(drawn)].ev.lines
ClosingVertex == LastLines[Len(LastLines)]

\* A finished run whose line is a loop that addVertex split at least once.
SplitLoopRun == (\E type \in Loops : LineRun(type)) /\ Splits # {}

\* C24 (as stated): the closing vertex that endLine re-emits for a split
\* LINE_LOOP or FILLED line has the coordinates of the first vertex passed to
\* addVertex after beginLine, wherever the flush happened, a flush by the
\* very first addVertex of the line included.
C24_ClosesAtFirstVertex ==
    (SplitLoopRun /\ lineLen >= 1) => ClosingVertex = Vertex(1)

\* The same for lines whose first addVertex did not flush.
C24_ClosesAtFirstVertexUnlessEmpty ==
    (/\ SplitLoopRun
     /\ \A d \in Splits : LineVerticesIn(drawn[d].ev) > 0) => ClosingVertex = Vertex(1)

-----------------------------------------------------------------------------
(* The stored first vertex of a split line.                                *)

\* The step flushed.
Flushed == Len(drawn') > Len(drawn)

\* C25: within one line the first-vertex register m_aVertFirst is written
\* only by the first overflow flush of addVertex and keeps its value through
\* every later flush; the "line was split" state (m_bLineBatchFirst false)
\* goes back to "not split" only in an endLine called by the user, never in
\* the endLine that is part of a flush.
C25_RegisterKept ==
    [][Ok(g') =>
        /\ (g'.m_aVertFirst # g.m_aVertFirst) =>
              (call'.op = "addVertex" /\ Flushed /\ g.m_bLineBatchFirst)
        /\ (call'.op = "addVertex" /\ Flushed) => ~g'.m_bLineBatchFirst
        /\ (~g.m_bLineBatchFirst /\ g'.m_bLineBatchFirst) => call'.op = "endLine"
        /\ (call'.op = "endLine") => g'.m_bLineBatchFirst]_vars

\* A line split twice was ended: the register still holds its first vertex.
C25_Witness ==
    /\ call.op = "endLine"
    /\ Cardinality(Splits) >= 2
    /\ \A d \in Splits : LineVerticesIn(drawn[d].ev) > 0
    /\ g.m_aVertFirst = Vertex(1)
    /\ g.m_bLineBatchFirst

-----------------------------------------------------------------------------
(* The index pairs of endLine.                                             *)

MaxLines == 2

LinesBegun == Cardinality({i \in 1..Len(hist) : hist[i].op = "beginLine"})

\* Some lines in one batch, one after the other, each of any type and of at
\* most MaxSeg vertices.
NextLoops ==
    \/ hist = << >> /\ BeginRenderBatch("world", FALSE) /\ Logged
    \/ \E type \in PolygonTypes :
           /\ hist # << >>
           /\ LinesBegun < MaxLines
           /\ BeginLine(type) /\ Logged
    \/ lineLen < MaxSeg /\ AddVertex /\ Logged
    \/ EndLine /\ Logged

SpecLoops == Init /\ [][NextLoops]_vars

\* The ordinal of the first vertex of the open line, while it is buffered.
FirstOrdinal == (g.m_unIndexVerts \div 3) - g.m_nLineNrOfVerts

\* What the step appended to the line indices and to the vertices.
LinesAdded == SubSeq(g'.m_vecIndicesLines, g.m_unIndexLines + 1, g'.m_unIndexLines)
VerticesAdded == SubSeq(g'.m_vecVertices, g.m_unIndexVerts + 1, g'.m_unIndexVerts)

\* endLine, called by the user, ends a loop of at least two buffered vertices.
LoopEnds ==
    /\ call'.op = "endLine"
    /\ Ok(g')
    /\ g.m_PolyType \in Loops
    /\ g.m_nLineNrOfVerts >= 2

JoinedThenClosed(from, to) ==
    LinesAdded = Consecutive(FirstOrdinal, g.m_nLineNrOfVerts - 1) \o <<from, to>>

\* C26 (as stated): an endLine called by the user on a LINE_LOOP or FILLED
\* line of N >= 2 vertices emits the N-1 pairs joining consecutive vertices
\* and one closing pair; with no flush during the line the closing pair uses
\* the ordinal of the buffered first vertex and no vertex is written, after a
\* flush exactly one vertex, the copy of the stored one, is written and
\* indexed; the endLine inside a flush emits the joining pairs only.
C26_PairsOfALoop ==
    [][/\ (LoopEnds /\ g.m_bLineBatchFirst) =>
              /\ VerticesAdded = << >>
              /\ JoinedThenClosed(FirstOrdinal,
                                  FirstOrdinal + g.m_nLineNrOfVerts - 1)
       /\ (LoopEnds /\ ~g.m_bLineBatchFirst) =>
              /\ VerticesAdded = <<g.m_aVertFirst[1], g.m_aVertFirst[2], m_fDepth>>
              /\ JoinedThenClosed(FirstOrdinal + g.m_nLineNrOfVerts - 1,
                                  FirstOrdinal + g.m_nLineNrOfVerts)
       /\ (call'.op = "addVertex" /\ Flushed /\ g.m_PolyType \in Loops) =>
              /\ Len(drawn') = Len(drawn) + 1
              /\ drawn'[Len(drawn')].ev.nLines = g.m_unIndexLines +
                    (IF g.m_nLineNrOfVerts > 1 THEN 2 * (g.m_nLineNrOfVerts - 1) ELSE 0)
      ]_vars


\* The ordinal counter stands at the first vertex of the open line.
InStep == g.m_unIndex = FirstOrdinal

\* The same for lines begun with the ordinal counter in step with the vertices.
C26_PairsOfALoopInStep ==
    [][/\ (LoopEnds /\ InStep /\ g.m_bLineBatchFirst) =>
              /\ VerticesAdded = << >>
              /\ JoinedThenClosed(FirstOrdinal,
                                  FirstOrdinal + g.m_nLineNrOfVerts - 1)
       /\ (LoopEnds /\ InStep /\ ~g.m_bLineBatchFirst) =>
              /\ VerticesAdded = <<g.m_aVertFirst[1], g.m_aVertFirst[2], m_fDepth>>
              /\ JoinedThenClosed(FirstOrdinal + g.m_nLineNrOfVerts - 1,
                                  FirstOrdinal + g.m_nLineNrOfVerts)
       /\ (call'.op = "addVertex" /\ Flushed /\ g.m_PolyType \in Loops) =>
              /\ Len(drawn') = Len(drawn) + 1
              /\ drawn'[Len(drawn')].ev.nLines = g.m_unIndexLines +
                    (IF g.m_nLineNrOfVerts > 1 THEN 2 * (g.m_nLineNrOfVerts - 1) ELSE 0)
      ]_vars


-----------------------------------------------------------------------------
(* The counters after an internal flush.                                   *)

\* The emitters whose last statement is the internal flush.
FlushLast == {"dot", "filledTriangle"}

InternalFlushIn(s) ==
    \E i \in 1..Len(Draws(s)) : Draws(s)[i].cause = "internal"

\* C27: when restartRenderBatchInternal returns, the cost counter, the vertex
\* ordinal counter and the seven write cursors (vertices, colours, both sets
\* of texture coordinates, line, point and triangle indices) are zero: an
\* emitter that ends with the flush returns with all nine zero, and so does
\* the flush itself from every state with a render mode in use.
C27_ZeroAfterInternalFlush ==
    [][/\ (call'.op \in FlushLast /\ Ok(g') /\ InternalFlushIn(g')) => AllZero(g')
       /\ Ok(restartRenderBatchInternal(g')) => AllZero(restartRenderBatchInternal(g'))
      ]_vars

\* A triangle filled the batch and flushed it: nothing is left in the buffers.
C27_Witness ==
    /\ call.op = "filledTriangle"
    /\ Ok(g)
    /\ \E i \in 1..Len(Draws(g)) :
           /\ Draws(g)[i].cause = "internal"
           /\ Draws(g)[i].nVerts > 0
    /\ AllZero(g)

-----------------------------------------------------------------------------
(* The re-allocation of the device buffers in an internal flush.           *)

Requested == {g.alloc[i] : i \in 1..Len(g.alloc)}

\* C28 (as stated): on an internal flush every device buffer re-allocated
\* after the draw (vertices, colours, line, point and triangle indices) is
\* requested with the full fixed capacity of the buffers, however much had
\* been written before the flush.
C28_FullCapacityRequested ==
    \A r \in Requested : r.size = m_unIndexMax

\* The vertex and colour buffers are requested with the full capacity.
C28_ArraysAtFullCapacity ==
    \A r \in Requested :
        r.buffer \in {"bound", "m_unVBO", "m_unVBOColours"} => r.size = m_unIndexMax

-----------------------------------------------------------------------------
(* The points of dots().                                                   *)

\* A point cloud in a batch that may hold points already: a fresh batch, at
\* most MaxPre dot() calls, one dots() call of up to MaxPoints points, the end.
NextCloud ==
    \/ \E m \in BatchModes : hist = << >> /\ BeginRenderBatch(m, FALSE) /\ Logged
    \/ /\ hist # << >>
       /\ Len(hist) <= MaxPre
       /\ \A i \in 2..Len(hist) : hist[i].op = "dot"
       /\ Dot /\ Logged
    \/ \E n \in 0..MaxPoints :
           /\ hist # << >>
           /\ \A i \in 2..Len(hist) : hist[i].op = "dot"
           /\ Dots(n) /\ Logged
    \/ /\ hist # << >>
       /\ hist[Len(hist)].op = "dots"
       /\ EndRenderBatch(FALSE) /\ Logged

SpecCloud == Init /\ [][NextCloud]_vars

RECURSIVE PointsDrawn(_)
\* The points of the first i draws, in the order they were uploaded.
PointsDrawn(d) == IF d = << >> THEN << >>
                  ELSE PointsDrawn(SubSeq(d, 1, Len(d) - 1)) \o d[Len(d)].points

\* The points the batch has been given up to the new state: those drawn by
\* the flushes of the step, then those still in the buffers.
PointsAfter == PointsDrawn(Draws(g')) \o Resolve(g', g'.m_vecIndicesPoints)

\* The points the call added: all but those buffered before it.
PointsEmitted == SubSeq(PointsAfter, g.m_unIndexPoints + 1, Len(PointsAfter))

RECURSIVE VerticesDrawn(_)
VerticesDrawn(d) == IF d = << >> THEN 0
                    ELSE VerticesDrawn(SubSeq(d, 1, Len(d) - 1)) + d[Len(d)].nVerts

\* dots() ran and stayed within the buffers.
DotsCalled == call'.op = "dots" /\ Ok(g')

FlushPath == g.m_uncI + 4 * call'.n > Threshold

\* C29: dots() emits each of its n points once and in the order of the input
\* (one vertex and one point index for each), for every n, those larger than
\* the buffers included; on the flush path the points are written in batches
\* of capacity/8, each followed by an internal flush, and fewer than
\* capacity/8 points are left in the buffers on return.  The points are read
\* where the device draws them, in the modes of the generic type.
C29_EachPointOnce ==
    [][DotsCalled =>
        /\ Generic => PointsEmitted = VertexList(call'.n)
        /\ VerticesDrawn(Draws(g')) + g'.m_unIndexVerts = g.m_unIndexVerts + 3 * call'.n
        /\ g'.m_unIndexPoints - (IF FlushPath THEN 0 ELSE g.m_unIndexPoints)
              = (g'.m_unIndexVerts - (IF FlushPath THEN 0 ELSE g.m_unIndexVerts)) \div 3
        /\ ~FlushPath => Draws(g') = << >>
        /\ FlushPath =>
              /\ Len(Draws(g')) = 1 + (call'.n \div nBatchSize)
              /\ \A i \in 1..Len(Draws(g')) : Draws(g')[i].cause = "internal"
              /\ Draws(g')[1].nVerts = g.m_unIndexVerts
              /\ \A i \in 2..Len(Draws(g')) : Draws(g')[i].nVerts = 3 * nBatchSize
              /\ Generic => \A i \in 2..Len(Draws(g')) : Draws(g')[i].nPoints = nBatchSize
              /\ g'.m_unIndexPoints = call'.n % nBatchSize
              /\ g'.m_unIndexPoints < nBatchSize]_vars

\* More points than the buffers hold, given to a batch that held points.
C29_Witness ==
    /\ call.op = "dots"
    /\ Ok(g)
    /\ g.m_pRenderMode = "world"
    /\ call.n * 3 > m_unIndexMax
    /\ Len(Draws(g)) >= 4
    /\ Draws(g)[1].nPoints > 0
    /\ g.m_unIndexPoints > 0

-----------------------------------------------------------------------------
(* A scope opened inside a scope of the same mode.                         *)

\* The call is a non-forced begin of the mode on top of a non-empty stack.
SameModeBegin ==
    /\ IsBegin(call', FALSE)
    /\ g.m_RenderModeStack # << >>
    /\ Top(g.m_RenderModeStack) = call'.mode

\* The nesting depth after the first i operations of a run of SpecNest.
DepthAt(i) ==
    Cardinality({j \in 1..i : hist[j].op = "beginRenderBatch"})
        - Cardinality({j \in 1..i : hist[j].op = "endRenderBatch"})

NrOfDots == Cardinality({j \in 1..Len(hist) : hist[j].op = "dot"})

\* A finished outermost scope of one mode with scopes of that mode inside.
SameModeRun ==
    /\ Len(hist) >= 4
    /\ DepthAt(Len(hist)) = 0
    /\ \A i \in 1..Len(hist) - 1 : DepthAt(i) > 0
    /\ \E i \in 2..Len(hist) : hist[i].op = "beginRenderBatch"
    /\ \A i \in 1..Len(hist) :
           hist[i].op = "beginRenderBatch" => hist[i].mode = hist[1].mode

\* C30: a non-forced beginRenderBatch(mode) on a non-empty stack whose top is
\* mode flushes nothing, issues no draw call and leaves the cost counter, the
\* ordinal counter, the write cursors and the buffers as they were; what the
\* enclosing scope and the scopes inside it emit is submitted in one batch.
C30_SameModeContinues ==
    /\ [][SameModeBegin =>
            /\ g'.dev = << >>
            /\ g'.m_nDrawCalls = g.m_nDrawCalls
            /\ g'.m_uncI = g.m_uncI
            /\ g'.m_unIndex = g.m_unIndex
            /\ \A f \in {"m_unIndexVerts", "m_unIndexCol", "m_unIndexUV0", "m_unIndexUV1",
                         "m_unIndexLines", "m_unIndexPoints", "m_unIndexTriangles",
                         "m_vecVertices", "m_vecIndicesLines", "m_vecIndicesPoints",
                         "m_vecIndicesTriangles"} : g'[f] = g[f]]_vars
    /\ [](SameModeRun =>
            /\ Len(drawn) = 1
            /\ drawn[1].ev.cause = "end"
            /\ drawn[1].ev.nVerts = 3 * NrOfDots)

\* Two dots, one in the outer scope and one in a scope of the same mode
\* inside it, drawn by the one flush at the end of the outer scope.
C30_Witness ==
    /\ SameModeRun
    /\ hist[2].op = "dot"
    /\ hist[3].op = "beginRenderBatch"
    /\ hist[4].op = "dot"
    /\ Len(drawn) = 1
    /\ drawn[1].ev.nPoints = 2

-----------------------------------------------------------------------------
(* The batch protocol around points and lines.                             *)

\* Every run of at most MaxOps calls of begin, end (forced or not), restart,
\* dot and the three calls of a line.
NextMix ==
    \/ \E m \in {"world", "font"}, force \in BOOLEAN :
           Counted /\ BeginRenderBatch(m, force)
    \/ \E force \in BOOLEAN : Counted /\ EndRenderBatch(force)
    \/ \E m \in {"world", "font"} : Counted /\ RestartRenderBatch(m)
    \/ Counted /\ Dot
    \/ \E type \in {"LINE_SINGLE", "LINE_LOOP"} : Counted /\ BeginLine(type)
    \/ lineLen < MaxSeg /\ Counted /\ AddVertex
    \/ Counted /\ EndLine

SpecMix == Init /\ [][NextMix]_vars

\* The state the call found, with the record of the device cleared as every
\* call clears it.
Untouched == [g EXCEPT !.dev = << >>, !.alloc = << >>, !.warn = 0]

IsRestartCall == call'.op = "restartRenderBatch"

\* C31 (as stated): restartRenderBatch(mode) does nothing when the stack is
\* empty, when the current mode type is not the type of mode, or when no
\* vertex has been written since the cursors were last reset: no flush, and
\* the stack, the current mode, the cursors and the counters stay as they were.
C31_RestartIsNoOp ==
    [][(/\ IsRestartCall
        /\ \/ g.m_RenderModeStack = << >>
           \/ g.m_RenderModeType # getRenderModeType(call'.mode)
           \/ g.m_unIndexVerts = 0) => g' = Untouched]_vars

\* The same with the test the code makes: the ordinal counter is zero.
C31_RestartIsNoOpAtOrdinalZero ==
    [][(/\ IsRestartCall
        /\ \/ g.m_RenderModeStack = << >>
           \/ g.m_RenderModeType # getRenderModeType(call'.mode)
           \/ g.m_unIndex = 0) => g' = Untouched]_vars

-----------------------------------------------------------------------------
(* The increment of the dynamic circle and arc.                            *)

\* Values of the three constants, of the resolution in pixels per metre, of
\* the radius and of the two angles of an arc.
SegmentSettings ==
    {[ang |-> Whole(1), min |-> Whole(2), max |-> Whole(8)],
     [ang |-> <<1, 2>>, min |-> Whole(1), max |-> Whole(2)]}

Resolutions_PMX == {Whole(1), Whole(4)}

Radii == {<<1, 2>>, Whole(1), Whole(2), Whole(4)}

ArcAngles == {Whole(0), Whole(2), <<5, 2>>}

DrawCircleDyn(c, res, rad) ==
    /\ Idle
    /\ Done(drawCircleDyn(Start, c, res, rad),
            [op |-> "drawCircleDyn", c |-> c, res |-> res, rad |-> rad,
             fInc |-> fIncCircle(c, res, rad)])
    /\ UNCHANGED <<lineOpen, lineLen>>

DrawArcDyn(c, res, rad, fAng0, fAngN, extra) ==
    /\ Idle
    /\ Done(drawArcDyn(Start, c, res, rad, fAng0, fAngN, extra),
            [op |-> "drawArcDyn", c |-> c, res |-> res, rad |-> rad,
             fInc |-> fIncArc(c, res, rad)])
    /\ UNCHANGED <<lineOpen, lineLen>>

\* A dynamic circle or arc as the first primitive of a scope.
NextDyn ==
    \/ Counted /\ BeginRenderBatch("world", FALSE)
    \/ Counted /\ EndRenderBatch(FALSE)
    \/ \E c \in SegmentSettings, res \in Resolutions_PMX, rad \in Radii :
           /\ call.op = "beginRenderBatch"
           /\ Counted /\ DrawCircleDyn(c, res, rad)
    \/ \E c \in SegmentSettings, res \in Resolutions_PMX, rad \in Radii,
          fAng0 \in ArcAngles, fAngN \in ArcAngles, extra \in BOOLEAN :
           /\ call.op = "beginRenderBatch"
           /\ Counted /\ DrawArcDyn(c, res, rad, fAng0, fAngN, extra)

SpecDyn == Init /\ [][NextDyn]_vars

IsDyn(c) == c.op \in {"drawCircleDyn", "drawArcDyn"}

\* The length on screen of one segment drawn with the increment of the call.
ChordPx(c) == Times(Times(c.fInc, c.res), c.rad)

DefaultPx(c) == Times(Times(c.c.ang, c.res), c.rad)

Clamped(c) ==
    /\ (~Less(DefaultPx(c), c.c.min) /\ ~Less(c.c.max, DefaultPx(c))) => c.fInc = c.c.ang
    /\ Less(DefaultPx(c), c.c.min) => ChordPx(c) = c.c.min
    /\ Less(c.c.max, DefaultPx(c)) => ChordPx(c) = c.c.max

\* C32 (as stated): for the dynamic circle and the dynamic arc alike the
\* increment per segment is the default when the length of a segment on
\* screen lies between the minimum and the maximum, and is rescaled so that
\* the length equals the bound when it is below the minimum or above the
\* maximum.
C32_IncrementClamped == IsDyn(call) => Clamped(call)

\* The same for the circle alone.
C32_CircleIncrementClamped == call.op = "drawCircleDyn" => Clamped(call)

\* The arc below the maximum.
C32_ArcIncrementRaised ==
    (call.op = "drawArcDyn" /\ ~Less(call.c.max, DefaultPx(call))) => Clamped(call)

-----------------------------------------------------------------------------
(* The flushes of one end.                                                 *)

\* C33 (as stated): one non-forced endRenderBatch submits the buffered
\* geometry to the device at most once, whatever the depth of the stack and
\* the types of the modes on it, three or more scopes of alternating types
\* included.
C33_EndFlushesOnce ==
    [][IsEnd(call', FALSE) => Len(Draws(g')) <= 1]_vars

\* The same for stacks of at most two scopes.
C33_EndFlushesOnceUpToTwo ==
    [][(IsEnd(call', FALSE) /\ Len(g.m_RenderModeStack) <= 2) => Len(Draws(g')) <= 1]_vars

-----------------------------------------------------------------------------
(* What is drawn twice and what is not drawn.                              *)

Range(f) == {f[i] : i \in DOMAIN f}

\* The positions a draw shows: the ends of its lines, its points and the
\* corners of its triangles.
Shown(ev) == (Range(ev.lines) \cup Range(ev.points) \cup Range(ev.triangles)) \ {Outside}

\* C34 (as stated): no primitive is submitted in more than one flush: what a
\* flush has drawn is not in the buffers any more when a later flush happens.
\* Every primitive of a run of SpecOrder has positions of its own, so no
\* position is shown by two draws.
C34_DrawnOnce ==
    \A i, j \in 1..Len(drawn) :
        i < j => Shown(drawn[i].ev) \cap Shown(drawn[j].ev) = {}

\* The scopes of the run are matched and never more than two deep, and every
\* primitive is emitted inside a scope.
AtMostTwoDeep ==
    \A i \in 1..Len(hist) :
        /\ DepthAt(i) >= 0
        /\ DepthAt(i) <= 2
        /\ hist[i].op \in Emitters => DepthAt(i) >= 1

\* The same for runs of at most two nested scopes.
C34_DrawnOnceUpToTwo == AtMostTwoDeep => C34_DrawnOnce


(***************************************************************************)
(* C35: no emitted primitive is lost.                                      *)
(***************************************************************************)

\* Points in scopes of both mode types, opened forced or not, every point at
\* a position of its own: the k-th operation of the run draws at
\* Vertex(Stride * k).
NextKeep ==
    \/ \E m \in {"world", "font"}, force \in BOOLEAN :
           Len(hist) < MaxOrder /\ BeginRenderBatch(m, force) /\ Logged
    \/ Len(hist) < MaxOrder /\ EndRenderBatch(FALSE) /\ Logged
    \/ Len(hist) < MaxOrder /\ DotAt(Vertex(Here)) /\ Logged

SpecKeep == Init /\ [][NextKeep]_vars

\* The depth of the mode stack after the first i operations of a run of
\* SpecKeep: a non-forced begin pushes, a forced begin does not, an end pops
\* what there is.
RECURSIVE ScopesAt(_)
ScopesAt(i) ==
    IF i = 0 THEN 0
    ELSE IF IsBegin(hist[i], FALSE) THEN ScopesAt(i - 1) + 1
    ELSE IF hist[i].op = "endRenderBatch"
         THEN (IF ScopesAt(i - 1) > 0 THEN ScopesAt(i - 1) - 1 ELSE 0)
    ELSE ScopesAt(i - 1)

\* The positions shown by the draws of the run so far.
ShownSoFar == UNION {Shown(drawn[i].ev) : i \in 1..Len(drawn)}

\* The points of the run that were emitted inside a scope.
EmittedInScope ==
    {i \in 1..Len(hist) : hist[i].op = "dot" /\ ScopesAt(i) >= 1}

\* C35: whenever the mode stack is empty, every point that was emitted while
\* it was not empty has been drawn by some flush, whatever the types of the
\* modes and whether the begins were forced or not.
C35_NothingLost ==
    g.m_RenderModeStack = << >> =>
        \A i \in EmittedInScope : Vertex(Stride * i) \in ShownSoFar

\* The run has no forced begin and no scope of a texture mode.
PlainScopes ==
    \A i \in 1..Len(hist) :
        hist[i].op = "beginRenderBatch" =>
            ~hist[i].force /\ hist[i].mode = "world"

\* The same for runs of non-forced scopes of the generic mode type.
C35_NothingLostPlain == PlainScopes => C35_NothingLost

\* The depth computed from the record of the run is the depth of the stack.
ScopesAt_IsDepth == ScopesAt(Len(hist)) = Len(g.m_RenderModeStack)


(***************************************************************************)
(* C36: the ordinal counter and the vertex count between lines.            *)
(***************************************************************************)

\* The ordinal counter is the number of vertices in the vertex buffer.
OrdinalIsCount ==
    /\ g.m_unIndexVerts = 3 * g.m_unIndex
    /\ g.m_unIndexCol = 4 * g.m_unIndex

\* C36: whenever no line is in progress, the ordinal counter equals the number
\* of vertices in the vertex buffer (vertex cursor = 3 x ordinal, colour cursor
\* = 4 x ordinal), for lines of every type and every vertex count.
C36_OrdinalIsVertexCount == ~lineOpen => OrdinalIsCount


\* The line in progress is in step: the buffer holds the vertices counted by
\* the ordinal counter and those of the line.
LineInStep ==
    /\ g.m_unIndexVerts = 3 * (g.m_unIndex + g.m_nLineNrOfVerts)
    /\ g.m_unIndexCol = 4 * (g.m_unIndex + g.m_nLineNrOfVerts)

\* A line of at least one vertex, and of an even number of them if it is of
\* separate segments.
ProperLine ==
    /\ g.m_nLineNrOfVerts >= 1
    /\ g.m_PolyType = "LINE_SINGLE" => g.m_nLineNrOfVerts % 2 = 0

\* The same for the end of a proper line that was in step.
C36_OrdinalKeptByProperLines ==
    [][(call'.op = "endLine" /\ LineInStep /\ ProperLine /\ Ok(g'))
           => OrdinalIsCount']_vars

\* The end of a line of an odd number of separate segments' vertices leaves
\* the ordinal counter one short of the vertex count.
C36_OddSingle ==
    [][(call'.op = "endLine" /\ LineInStep /\ Ok(g')
            /\ g.m_PolyType = "LINE_SINGLE" /\ g.m_nLineNrOfVerts % 2 = 1)
           => g'.m_unIndexVerts = 3 * (g'.m_unIndex + 1)]_vars


(***************************************************************************)
(* C37: the index count of a draw.                                         *)
(***************************************************************************)

\* The indices uploaded for the draw of one stream of a flush.
Uploaded(ev, stream) ==
    CASE stream = "lines"     -> ev.nLines
      [] stream = "points"    -> ev.nPoints
      [] stream = "triangles" -> ev.nTris

\* C37: every indexed draw of a flush is given an index count equal to the
\* write cursor of its index stream, that is, to the number of indices
\* uploaded for it.
C37_CountIsCursor ==
    \A i \in 1..Len(Draws(g)) :
        \A k \in 1..Len(Draws(g)[i].streams) :
            Draws(g)[i].count = Uploaded(Draws(g)[i], Draws(g)[i].streams[k])

\* Every indexed draw is given the capacity of the index vectors as its count,
\* and never fewer indices than were uploaded.
C37_CountIsCapacity ==
    \A i \in 1..Len(Draws(g)) :
        /\ Draws(g)[i].count = m_unIndexMax
        /\ \A k \in 1..Len(Draws(g)[i].streams) :
               Ok(g) => Uploaded(Draws(g)[i], Draws(g)[i].streams[k]) <= Draws(g)[i].count


(***************************************************************************)
(* C38: CWidgetText::draw and the mode stack.                              *)
(***************************************************************************)

\* The name a widget asks for, as the registry sees it: a name that was never
\* registered is looked up like any other unknown name.
Named(name, registered) == IF name \in registered THEN name ELSE "unknown"

\* CWidgetText::draw(): the frame in a scope of "world", the text in a scope
\* of "font"; the values returned by beginRenderBatch are not looked at.  The
\* frame and the text are drawn by code outside the graphics core, taken here
\* to emit a rectangle and a textured rectangle, or nothing, and to leave the
\* mode stack alone.
draw(s, registered, frame, text) ==
    LET s1 == beginRenderBatchByName(s, Named("world", registered))
        s2 == IF frame THEN rect(s1) ELSE s1
        s3 == endRenderBatch(s2, FALSE)
        s4 == beginRenderBatchByName(s3, Named("font", registered))
        s5 == IF text THEN texturedRect(s4, MaxUV) ELSE s4
    IN  endRenderBatch(s5, FALSE)

Draw(registered, frame, text) ==
    /\ Idle
    /\ Len(g.m_RenderModeStack) < MaxDepth
    /\ Done(draw(Start, registered, frame, text),
            [op |-> "draw", registered |-> registered])
    /\ UNCHANGED <<lineOpen, lineLen>>

\* A widget drawn at every point of the batch protocol, by a program that
\* has registered both, one or none of the two names.
NextWidget ==
    \/ \E m \in {"world", "font"} : Counted /\ BeginRenderBatch(m, FALSE)
    \/ Counted /\ EndRenderBatch(FALSE)
    \/ Counted /\ Dot
    \/ \E registered \in SUBSET {"world", "font"}, frame, text \in BOOLEAN :
           Counted /\ Draw(registered, frame, text)

SpecWidget == Init /\ [][NextWidget]_vars

IsDraw(c) == c.op = "draw"

\* C38: CWidgetText::draw() leaves the render-mode stack exactly as it found
\* it, for every stack on entry and whether or not the names "world" and
\* "font" are registered.
C38_DrawKeepsStack ==
    [][IsDraw(call') => g'.m_RenderModeStack = g.m_RenderModeStack]_vars

\* The same with both names registered, for a draw that overruns no buffer.
C38_DrawKeepsStackRegistered ==
    [][(IsDraw(call') /\ call'.registered = {"world", "font"} /\ Ok(g'))
           => g'.m_RenderModeStack = g.m_RenderModeStack]_vars

\* The same on an empty stack, whatever is registered.
C38_DrawKeepsEmptyStack ==
    [][(IsDraw(call') /\ g.m_RenderModeStack = << >> /\ Ok(g'))
           => g'.m_RenderModeStack = << >>]_vars


(***************************************************************************)
(* C39: the type of the stack top and the current type.                    *)
(***************************************************************************)

\* C39: under non-forced begins and ends, restarts, emitters and their
\* internal flushes, whenever the mode stack is not empty the render-mode type
\* of its top is the current render-mode type.
C39_TopTypeIsCurrent ==
    (Ok(g) /\ g.m_RenderModeStack # << >>) =>
        getRenderModeType(Top(g.m_RenderModeStack)) = g.m_RenderModeType

\* An end has returned to an enclosing scope of another type than the one it
\* closed, and that type is current again.
C39_Witness ==
    /\ call.op = "endRenderBatch"
    /\ Ok(g)
    /\ Len(g.m_RenderModeStack) >= 1
    /\ Len(Draws(g)) >= 1
    /\ getRenderModeType(Draws(g)[1].mode) # g.m_RenderModeType
    /\ getRenderModeType(Top(g.m_RenderModeStack)) = g.m_RenderModeType


(***************************************************************************)
(* C40: the current render mode at a flush.                                *)
(***************************************************************************)

\* init(): the current mode becomes the first of the registered modes, if
\* there is one; which one is first is for the container to say.  The window,
\* the buffer objects and the projection that init sets up are not part of
\* the state modelled here.
init(s, registered, first) ==
    IF registered = {} THEN s
    ELSE [s EXCEPT !.m_pRenderMode = m_RenderModesByName[first]]

InitGraphics(registered, first) ==
    /\ Idle
    /\ Done(init(Start, registered, first),
            [op |-> "init", registered |-> registered])
    /\ UNCHANGED <<lineOpen, lineLen>>

\* The calls a program can make from construction on: init with some, or no,
\* modes registered, begin and end, forced or not, and points.
NextInit ==
    \/ \E registered \in SUBSET {"world", "font"} :
           \E first \in (IF registered = {} THEN {nullptr} ELSE registered) :
               Counted /\ InitGraphics(registered, first)
    \/ \E m \in {"world", "font"}, force \in BOOLEAN :
           Counted /\ BeginRenderBatch(m, force)
    \/ \E force \in BOOLEAN : Counted /\ EndRenderBatch(force)
    \/ Counted /\ Dot
    \/ Counted /\ Dots((2 * nBatchSize) + 1)

SpecInit == Init /\ [][NextInit]_vars

\* C40: whenever a flush executes, a current render mode has been set: no
\* flush finds the current-mode reference null, in any state reachable from
\* construction.
C40_ModeSetAtFlush == g.fault # nullptr

\* Once a mode is current, one stays current and every flush finds it.
C40_ModeStaysSet ==
    [][g.m_pRenderMode # nullptr =>
           g'.m_pRenderMode # nullptr /\ g'.fault # nullptr]_vars

\* After an init that found a mode registered, every flush finds a mode.
C40_ModeSetAfterInit ==
    [][(call'.op = "init" /\ call'.registered # {}) =>
           g'.m_pRenderMode # nullptr]_vars

=============================================================================
